---- MODULE Spec2Model ----
(***************************************************************************)
(* Model of the user store (database.py: UserDatabase), the admin layer    *)
(* (admin_panel.py: AdminPanel) and the subscription handlers and jobs of  *)
(* main.py and notifications.py that read and write it.                    *)
(*                                                                         *)
(* Timestamps are whole seconds; a stored ISO string is the number it      *)
(* denotes, and .date() is the day number date_of(t).  A user record is a  *)
(* function from field names to values, so that dict.update(kwargs) is a   *)
(* real merge that can add keys.  None is the string "None" in fields      *)
(* that hold strings and NoTime in fields that hold timestamps.            *)
(***************************************************************************)
EXTENDS Integers, FiniteSets, Sequences, TLC

VARIABLES db, sm, now, ms, steps, io_ok, hist, approved_on_trial, save_run, th,
          approved

vars ==
    <<db, sm, now, ms, steps, io_ok, hist, approved_on_trial, save_run, th,
      approved>>

(***************************************************************************)
(* Bounds of the model.                                                    *)
(***************************************************************************)
MaxUsers == 1
MaxSteps == 3
MaxRejects == 2

UserIds == 1..MaxUsers

(***************************************************************************)
(* Program constants.                                                      *)
(***************************************************************************)
SecondsPerDay == 86400
TrialDays == 14
BackupInterval == 60
KeepBackups == 10
InactiveDays == 90

None == "None"
NoTime == -1

Reasons == {"Manual suspension"}
Accounts == {"12345"}

\* The clock advances by a trial period, or by a trial period and a day and
\* a half.
ClockSteps == {TrialDays * SecondsPerDay,
               TrialDays * SecondsPerDay + (3 * SecondsPerDay) \div 2}

date_of(t) == t \div SecondsPerDay

\* How a write of a file goes: open() and json.dump() succeed; open() raises
\* and the file is as it was; open() has emptied the file and json.dump()
\* or the write raises, leaving a text that is cut off.
Ok == "ok"
Refused == "refused"
Torn == "torn"

\* Python truthiness of a stored string-or-None and of a stored timestamp-or-None
Truthy(v) == v \notin {None, ""}
TruthyTime(t) == t # NoTime

\* dict.get(key) with the default None
Get(r, k) == IF k \in DOMAIN r THEN r[k] ELSE None

EmptyMap == [k \in {} |-> None]

(***************************************************************************)
(* database.py: UserDatabase.  The object is the record db:                *)
(*   users          the in-memory dict                                     *)
(*   save_pending   the dirty flag _save_pending                           *)
(*   last_backup    _last_backup (NoTime is None)                          *)
(*   save_thread    "none" (never started), "alive", "dead"                *)
(*   shutdown       _shutdown                                              *)
(*   file           the record file: exists, and its JSON document         *)
(*   backups        the backup directory: timestamp in the name -> copy    *)
(*   cleanup_threads  started cleanup_old_backups threads not yet run      *)
(***************************************************************************)

\* json.dump(self.users): the keys become decimal strings
json_dump(us) ==
    [k \in {ToString(u) : u \in DOMAIN us} |->
        us[CHOOSE u \in DOMAIN us : ToString(u) = k]]

\* what a record file holds when it is not a JSON document: a text cut off
\* by a failed write, or anything else json.load rejects
Unparsable == [k \in {"{"} |-> EmptyMap]

\* a key str(u) with a leading zero: int() reads it as u
Padded(u) == "0" \o ToString(u)

\* int(k): defined on decimal text, with or without the leading zero; on any
\* other key it raises ValueError
is_int(k) == \E u \in UserIds : k \in {ToString(u), Padded(u)}
int_of(k) == CHOOSE u \in UserIds : k \in {ToString(u), Padded(u)}

\* load_users keeping only the fields get_user has a default for
load_users_known_fields(file) ==
    IF ~file.exists THEN EmptyMap
    ELSE IF file.doc = Unparsable THEN EmptyMap
    ELSE IF \E k \in DOMAIN file.doc : ~is_int(k) THEN EmptyMap
    ELSE [u \in {int_of(k) : k \in DOMAIN file.doc} |->
             LET rec == IF Padded(u) \in DOMAIN file.doc
                        THEN file.doc[Padded(u)] ELSE file.doc[ToString(u)]
             IN  [f \in DOMAIN rec \cap
                        {"user_id", "status", "country", "terms_accepted",
                         "trial_end", "subscription_end", "full_name",
                         "email", "account_number", "verified", "suspended",
                         "suspension_reason", "created_at", "last_activity",
                         "last_verification", "verification_requests",
                         "total_signals_received", "premium_since"} |->
                     rec[f]]]

\* load_users leaving out the entries whose key int() rejects
load_users_skipping(file) ==
    IF ~file.exists THEN EmptyMap
    ELSE IF file.doc = Unparsable THEN EmptyMap
    ELSE [u \in {int_of(k) : k \in {x \in DOMAIN file.doc : is_int(x)}} |->
             IF Padded(u) \in DOMAIN file.doc
             THEN file.doc[Padded(u)] ELSE file.doc[ToString(u)]]

\* load_users: no file, no users; a document json.load rejects or a key
\* int() rejects raises inside the try, and the except returns no users;
\* otherwise int(k) of every key, a later entry replacing an earlier one of
\* the same int(k) (the documents of the model list "1" before "01")
load_users(file) ==
    IF ~file.exists THEN EmptyMap
    ELSE IF file.doc = Unparsable THEN EmptyMap
    ELSE IF \E k \in DOMAIN file.doc : ~is_int(k) THEN EmptyMap
    ELSE [u \in {int_of(k) : k \in DOMAIN file.doc} |->
             IF Padded(u) \in DOMAIN file.doc
             THEN file.doc[Padded(u)] ELSE file.doc[ToString(u)]]

\* __init__, given the record file and the backup directory found on disk
UserDatabase(file, backups) ==
    [users |-> load_users(file), save_pending |-> FALSE,
     last_backup |-> NoTime, save_thread |-> "none", shutdown |-> FALSE,
     file |-> file, backups |-> backups, cleanup_threads |-> 0]

\* the default record of get_user
DefaultUser(u, t) ==
    [user_id |-> u, status |-> "free", country |-> None,
     terms_accepted |-> FALSE, trial_end |-> NoTime,
     subscription_end |-> NoTime, full_name |-> None, email |-> None,
     account_number |-> None, verified |-> FALSE, suspended |-> FALSE,
     suspension_reason |-> None, created_at |-> t, last_activity |-> t,
     last_verification |-> NoTime, verification_requests |-> 0,
     total_signals_received |-> 0, premium_since |-> NoTime]

get_user(d, u, t) ==
    IF u \in DOMAIN d.users THEN d.users[u] ELSE DefaultUser(u, t)

create_backup(d, t) ==
    IF d.file.exists
    THEN [d EXCEPT !.backups = (t :> d.file.doc) @@ d.backups,
                   !.cleanup_threads = @ + 1]
    ELSE d

\* _perform_save taking the backup after the file is rewritten
perform_save_backup_after(d, t, ok) ==
    LET should_backup == d.last_backup = NoTime
                           \/ (t - d.last_backup) > BackupInterval
        d1 == IF ok = Ok
              THEN [d EXCEPT !.file =
                        [exists |-> TRUE, doc |-> json_dump(d.users)]]
              ELSE IF ok = Torn
              THEN [d EXCEPT !.file = [exists |-> TRUE, doc |-> Unparsable]]
              ELSE d
    IN  IF should_backup
        THEN create_backup([d1 EXCEPT !.last_backup = t], t)
        ELSE d1

\* _perform_save going back to what is on disk when the write fails
perform_save_reloading(d, t, ok) ==
    LET should_backup == d.last_backup = NoTime
                           \/ (t - d.last_backup) > BackupInterval
        d1 == IF should_backup
              THEN create_backup([d EXCEPT !.last_backup = t], t)
              ELSE d
    IN  IF ok = Ok
        THEN [d1 EXCEPT !.file = [exists |-> TRUE, doc |-> json_dump(d.users)]]
        ELSE [d1 EXCEPT !.users = load_users(d.file)]

\* ok: how the write goes.  The exception of a failed write is raised
\* after the backup step and caught by the except of _perform_save
perform_save(d, t, ok) ==
    LET should_backup == d.last_backup = NoTime
                           \/ (t - d.last_backup) > BackupInterval
        d1 == IF should_backup
              THEN create_backup([d EXCEPT !.last_backup = t], t)
              ELSE d
    IN  IF ok = Ok
        THEN [d1 EXCEPT !.file = [exists |-> TRUE, doc |-> json_dump(d.users)]]
        ELSE IF ok = Torn
        THEN [d1 EXCEPT !.file = [exists |-> TRUE, doc |-> Unparsable]]
        ELSE d1

\* save_users that never starts the background thread
save_users_no_thread(d, immediate, t, ok) ==
    LET d1 == [d EXCEPT !.save_pending = TRUE]
    IN  IF immediate THEN perform_save(d1, t, ok) ELSE d1

\* save_users writing the file on every call, debounced or not
save_users_writing(d, immediate, t, ok) ==
    LET d1 == perform_save([d EXCEPT !.save_pending = TRUE], t, ok)
    IN  IF immediate
        THEN d1
        ELSE IF d1.save_thread # "alive"
             THEN [d1 EXCEPT !.save_thread =
                       IF d1.shutdown THEN "dead" ELSE "alive"]
             ELSE d1

save_users(d, immediate, t, ok) ==
    LET d1 == [d EXCEPT !.save_pending = TRUE]
    IN  IF immediate
        THEN perform_save(d1, t, ok)
        ELSE IF d1.save_thread # "alive"
             THEN [d1 EXCEPT !.save_thread =
                       IF d1.shutdown THEN "dead" ELSE "alive"]
             ELSE d1

\* update_user stamping premium_since on every update that passes
\* status = "premium"
update_user_restamp(d, u, immediate, kwargs, t, ok) ==
    LET d1 == IF u \in DOMAIN d.users
              THEN d
              ELSE [d EXCEPT !.users = (u :> get_user(d, u, t)) @@ @]
        kw1 == [last_activity |-> t] @@ kwargs
        kw2 == IF "status" \in DOMAIN kw1 /\ kw1["status"] = "premium"
               THEN [premium_since |-> t] @@ kw1
               ELSE kw1
        d2 == [d1 EXCEPT !.users[u] = kw2 @@ @]
    IN  save_users(d2, immediate, t, ok)

\* update_user in which the stored values win over the supplied ones
update_user_keep_old(d, u, immediate, kwargs, t, ok) ==
    LET d1 == IF u \in DOMAIN d.users
              THEN d
              ELSE [d EXCEPT !.users = (u :> get_user(d, u, t)) @@ @]
        kw1 == [last_activity |-> t] @@ kwargs
        kw2 == IF /\ "status" \in DOMAIN kw1
                  /\ kw1["status"] = "premium"
                  /\ Get(d1.users[u], "status") # "premium"
               THEN [premium_since |-> t] @@ kw1
               ELSE kw1
        d2 == [d1 EXCEPT !.users[u] = @ @@ kw2]
    IN  save_users(d2, immediate, t, ok)

\* update_user that stamps last_activity only when the caller passes none
update_user_caller_activity(d, u, immediate, kwargs, t, ok) ==
    LET d1 == IF u \in DOMAIN d.users
              THEN d
              ELSE [d EXCEPT !.users = (u :> get_user(d, u, t)) @@ @]
        kw1 == kwargs @@ [last_activity |-> t]
        kw2 == IF /\ "status" \in DOMAIN kw1
                  /\ kw1["status"] = "premium"
                  /\ Get(d1.users[u], "status") # "premium"
               THEN [premium_since |-> t] @@ kw1
               ELSE kw1
        d2 == [d1 EXCEPT !.users[u] = kw2 @@ @]
    IN  save_users(d2, immediate, t, ok)

update_user(d, u, immediate, kwargs, t, ok) ==
    LET d1 == IF u \in DOMAIN d.users
              THEN d
              ELSE [d EXCEPT !.users = (u :> get_user(d, u, t)) @@ @]
        kw1 == [last_activity |-> t] @@ kwargs
        kw2 == IF /\ "status" \in DOMAIN kw1
                  /\ kw1["status"] = "premium"
                  /\ Get(d1.users[u], "status") # "premium"
               THEN [premium_since |-> t] @@ kw1
               ELSE kw1
        d2 == [d1 EXCEPT !.users[u] = kw2 @@ @]
    IN  save_users(d2, immediate, t, ok)

get_all_users(d) == d.users

\* the entry get_pending_verifications makes of a stored user
pending_entry(uid, user) ==
    [user_id |-> uid, full_name |-> Get(user, "full_name"),
     email |-> Get(user, "email"),
     account_number |-> Get(user, "account_number"),
     created_at |-> IF "created_at" \in DOMAIN user
                    THEN user["created_at"] ELSE NoTime]

\* get_pending_verifications without the test of the suspended flag
get_pending_verifications_suspended_too(d) ==
    {pending_entry(uid, d.users[uid]) :
        uid \in {u \in DOMAIN d.users :
                    LET user == d.users[u]
                    IN  /\ Truthy(Get(user, "account_number"))
                        /\ ~("verified" \in DOMAIN user /\ user["verified"])
                        /\ Get(user, "status") # "premium"}}

\* the list is modelled by the set of its entries: there is one entry at
\* most for a key of the dict
get_pending_verifications(d) ==
    {pending_entry(uid, d.users[uid]) :
        uid \in {u \in DOMAIN d.users :
                    LET user == d.users[u]
                    IN  /\ Truthy(Get(user, "account_number"))
                        /\ ~("verified" \in DOMAIN user /\ user["verified"])
                        /\ Get(user, "status") # "premium"
                        /\ ~("suspended" \in DOMAIN user
                                /\ user["suspended"])}}

\* a new process: __init__ again on what is on disk (the threads of the
\* old process are gone with it)
restart(d) == UserDatabase(d.file, d.backups)

\* suspend_user leaving the write to the background loop
suspend_user_debounced(d, u, reason, t, ok) ==
    update_user(d, u, FALSE,
                [suspended |-> TRUE, suspension_reason |-> reason,
                 status |-> "suspended"], t, ok)

suspend_user(d, u, reason, t, ok) ==
    update_user(d, u, TRUE,
                [suspended |-> TRUE, suspension_reason |-> reason,
                 status |-> "suspended"], t, ok)

\* reactivate_user restoring "premium" whatever verified is
reactivate_user_premium(d, u, t, ok) ==
    update_user(d, u, TRUE,
                [suspended |-> FALSE, suspension_reason |-> None,
                 status |-> "premium"], t, ok)

reactivate_user(d, u, t, ok) ==
    LET user == get_user(d, u, t)
        new_status == IF user["verified"] THEN "premium" ELSE "free"
    IN  update_user(d, u, TRUE,
                    [suspended |-> FALSE, suspension_reason |-> None,
                     status |-> new_status], t, ok)

\* approve_user that does not set verified
approve_user_unverified(d, u, t, ok) ==
    LET user == get_user(d, u, t)
    IN  IF Get(user, "status") = "trial" /\ TruthyTime(user["trial_end"])
        THEN update_user(d, u, TRUE, [last_verification |-> t], t, ok)
        ELSE update_user(d, u, TRUE,
                         [status |-> "premium", last_verification |-> t],
                         t, ok)

\* approve_user without the trial branch
approve_user_no_trial(d, u, t, ok) ==
    update_user(d, u, TRUE,
                [verified |-> TRUE, status |-> "premium",
                 last_verification |-> t], t, ok)

approve_user(d, u, t, ok) ==
    LET user == get_user(d, u, t)
    IN  IF Get(user, "status") = "trial" /\ TruthyTime(user["trial_end"])
        THEN update_user(d, u, TRUE,
                         [verified |-> TRUE, last_verification |-> t], t, ok)
        ELSE update_user(d, u, TRUE,
                         [verified |-> TRUE, status |-> "premium",
                          last_verification |-> t], t, ok)

\* reject_user leaving the status as it is
reject_user_keeping_status(d, u, t, ok) ==
    update_user(d, u, TRUE,
                [verified |-> FALSE,
                 verification_requests |->
                     get_user(d, u, t)["verification_requests"] + 1], t, ok)

\* reject_user counting from the default instead of from the stored counter
reject_user_from_default(d, u, t, ok) ==
    update_user(d, u, TRUE,
                [verified |-> FALSE, status |-> "free",
                 verification_requests |->
                     DefaultUser(u, t)["verification_requests"] + 1], t, ok)

reject_user(d, u, t, ok) ==
    update_user(d, u, TRUE,
                [verified |-> FALSE, status |-> "free",
                 verification_requests |->
                     get_user(d, u, t)["verification_requests"] + 1], t, ok)

\* the keys of m from the smallest up, as the loops below visit them (the
\* updates of different users commute, so the dict's own order is immaterial)
MinOf(S) == CHOOSE x \in S : \A y \in S : x <= y
MaxOf(S) == CHOOSE x \in S : \A y \in S : x >= y

RECURSIVE update_each(_, _, _, _, _, _)
update_each(d, ids, immediate, kwargs, t, ok) ==
    IF ids = {}
    THEN d
    ELSE LET u == MinOf(ids)
         IN  update_each(update_user(d, u, immediate, kwargs, t, ok),
                         ids \ {u}, immediate, kwargs, t, ok)

\* returns [count, db]
cleanup_expired_trials(d, t, ok) ==
    LET today == date_of(t)
        expired == {u \in DOMAIN d.users :
                      /\ Get(d.users[u], "status") = "trial"
                      /\ TruthyTime(d.users[u]["trial_end"])
                      /\ date_of(d.users[u]["trial_end"]) < today}
    IN  [count |-> Cardinality(expired),
         db |-> update_each(d, expired, TRUE, [status |-> "free"], t, ok)]

\* shutdown that only stops the loop
shutdown_no_flush(d, t, ok) == [d EXCEPT !.shutdown = TRUE]

shutdown(d, t, ok) ==
    LET d1 == [d EXCEPT !.shutdown = TRUE]
    IN  IF d1.save_pending THEN perform_save(d1, t, ok) ELSE d1

\* one turn of the loop of _background_save, from the end of the sleep to
\* the next test of the loop condition
background_save(d, t, ok) ==
    LET d1 == IF d.save_pending
              THEN [perform_save(d, t, ok) EXCEPT !.save_pending = FALSE]
              ELSE d
    IN  [d1 EXCEPT !.save_thread = IF d1.shutdown THEN "dead" ELSE "alive"]

RECURSIVE Oldest(_, _)
Oldest(S, n) ==
    IF n = 0 \/ S = {} THEN {}
    ELSE {MinOf(S)} \cup Oldest(S \ {MinOf(S)}, n - 1)

\* cleanup_old_backups sorting the names in ascending order
cleanup_old_backups_ascending(d) ==
    LET keep == Oldest(DOMAIN d.backups, KeepBackups)
    IN  [d EXCEPT !.backups = [n \in keep |-> d.backups[n]],
                  !.cleanup_threads = @ - 1]

RECURSIVE Newest(_, _)
Newest(S, n) ==
    IF n = 0 \/ S = {} THEN {}
    ELSE {MaxOf(S)} \cup Newest(S \ {MaxOf(S)}, n - 1)

cleanup_old_backups(d) ==
    LET keep == Newest(DOMAIN d.backups, KeepBackups)
    IN  [d EXCEPT !.backups = [n \in keep |-> d.backups[n]],
                  !.cleanup_threads = @ - 1]

(***************************************************************************)
(* main.py: the status read path and the trial-expiry job.                 *)
(***************************************************************************)

\* get_user_status ending a subscription on the day of subscription_end
get_user_status_ends_today(d, u, t, ok) ==
    LET user == get_user(d, u, t)
        today == date_of(t)
    IN  IF user["status"] = "trial"
        THEN IF TruthyTime(user["trial_end"])
                  /\ date_of(user["trial_end"]) <= today
             THEN IF user["verified"]
                  THEN [ret |-> "premium",
                        db |-> update_user(d, u, FALSE, [status |-> "premium"], t, ok)]
                  ELSE [ret |-> "free",
                        db |-> update_user(d, u, FALSE, [status |-> "free"], t, ok)]
             ELSE [ret |-> "trial", db |-> d]
        ELSE IF user["status"] = "premium"
        THEN IF TruthyTime(user["subscription_end"])
                  /\ date_of(user["subscription_end"]) <= today
             THEN [ret |-> "free",
                   db |-> update_user(d, u, FALSE, [status |-> "free"], t, ok)]
             ELSE [ret |-> "premium", db |-> d]
        ELSE [ret |-> user["status"], db |-> d]

\* get_user_status storing the status it read when neither expiry holds
get_user_status_storing(d, u, t, ok) ==
    LET user == get_user(d, u, t)
        today == date_of(t)
        stored == update_user(d, u, FALSE, [status |-> user["status"]], t, ok)
    IN  IF user["status"] = "trial"
        THEN IF TruthyTime(user["trial_end"])
                  /\ date_of(user["trial_end"]) <= today
             THEN IF user["verified"]
                  THEN [ret |-> "premium",
                        db |-> update_user(d, u, FALSE, [status |-> "premium"], t, ok)]
                  ELSE [ret |-> "free",
                        db |-> update_user(d, u, FALSE, [status |-> "free"], t, ok)]
             ELSE [ret |-> "trial", db |-> stored]
        ELSE IF user["status"] = "premium"
        THEN IF TruthyTime(user["subscription_end"])
                  /\ date_of(user["subscription_end"]) < today
             THEN [ret |-> "free",
                   db |-> update_user(d, u, FALSE, [status |-> "free"], t, ok)]
             ELSE [ret |-> "premium", db |-> stored]
        ELSE [ret |-> user["status"], db |-> stored]

\* get_user_status recording every read of a stored user as activity
get_user_status_touching(d, u, t, ok) ==
    LET user == get_user(d, u, t)
        today == date_of(t)
    IN  IF user["status"] = "trial"
        THEN IF TruthyTime(user["trial_end"])
                  /\ date_of(user["trial_end"]) <= today
             THEN IF user["verified"]
                  THEN [ret |-> "premium",
                        db |-> update_user(d, u, FALSE, [status |-> "premium"], t, ok)]
                  ELSE [ret |-> "free",
                        db |-> update_user(d, u, FALSE, [status |-> "free"], t, ok)]
             ELSE [ret |-> "trial", db |-> d]
        ELSE IF user["status"] = "premium"
        THEN IF TruthyTime(user["subscription_end"])
                  /\ date_of(user["subscription_end"]) < today
             THEN [ret |-> "free",
                   db |-> update_user(d, u, FALSE, [status |-> "free"], t, ok)]
             ELSE [ret |-> "premium", db |-> d]
        ELSE [ret |-> user["status"],
              db |-> IF u \in DOMAIN d.users
                     THEN update_user(d, u, FALSE, EmptyMap, t, ok) ELSE d]

\* get_user_status with the boundary of the earlier revision: a trial that
\* ends today is still a trial
get_user_status_strict(d, u, t, ok) ==
    LET user == get_user(d, u, t)
        today == date_of(t)
    IN  IF user["status"] = "trial"
        THEN IF TruthyTime(user["trial_end"])
                  /\ date_of(user["trial_end"]) < today
             THEN IF user["verified"]
                  THEN [ret |-> "premium",
                        db |-> update_user(d, u, FALSE, [status |-> "premium"], t, ok)]
                  ELSE [ret |-> "free",
                        db |-> update_user(d, u, FALSE, [status |-> "free"], t, ok)]
             ELSE [ret |-> "trial", db |-> d]
        ELSE IF user["status"] = "premium"
        THEN IF TruthyTime(user["subscription_end"])
                  /\ date_of(user["subscription_end"]) < today
             THEN [ret |-> "free",
                   db |-> update_user(d, u, FALSE, [status |-> "free"], t, ok)]
             ELSE [ret |-> "premium", db |-> d]
        ELSE [ret |-> user["status"], db |-> d]

\* returns [ret, db]
get_user_status(d, u, t, ok) ==
    LET user == get_user(d, u, t)
        today == date_of(t)
    IN  IF user["status"] = "trial"
        THEN IF TruthyTime(user["trial_end"])
                  /\ date_of(user["trial_end"]) <= today
             THEN IF user["verified"]
                  THEN [ret |-> "premium",
                        db |-> update_user(d, u, FALSE, [status |-> "premium"], t, ok)]
                  ELSE [ret |-> "free",
                        db |-> update_user(d, u, FALSE, [status |-> "free"], t, ok)]
             ELSE [ret |-> "trial", db |-> d]
        ELSE IF user["status"] = "premium"
        THEN IF TruthyTime(user["subscription_end"])
                  /\ date_of(user["subscription_end"]) < today
             THEN [ret |-> "free",
                   db |-> update_user(d, u, FALSE, [status |-> "free"], t, ok)]
             ELSE [ret |-> "premium", db |-> d]
        ELSE [ret |-> user["status"], db |-> d]

check_trial_expiry(d, t, ok) ==
    LET today == date_of(t)
        expired_users == {u \in DOMAIN get_all_users(d) :
                            /\ Get(d.users[u], "status") = "trial"
                            /\ TruthyTime(d.users[u]["trial_end"])
                            /\ date_of(d.users[u]["trial_end"]) < today}
    IN  update_each(d, expired_users, FALSE, [status |-> "free"], t, ok)

\* handle_trial_choice written without the trial_end keyword
handle_trial_choice_without_end(d, u, t, ok) ==
    update_user(d, u, TRUE, [status |-> "trial"], t, ok)

handle_trial_choice(d, u, t, ok) ==
    LET trial_end == t + TrialDays * SecondsPerDay
    IN  update_user(d, u, TRUE,
                    [status |-> "trial", trial_end |-> trial_end], t, ok)

start_registration_conversation(d, u, t, ok) ==
    LET user_data == get_user(d, u, t)
    IN  IF Get(user_data, "status") # "trial"
        THEN update_user(d, u, FALSE, [status |-> "registering"], t, ok)
        ELSE d

handle_account_number(d, u, account_number, t, ok) ==
    IF ~Truthy(account_number)
    THEN d
    ELSE update_user(d, u, FALSE, [account_number |-> account_number], t, ok)

(***************************************************************************)
(* notifications.py: NotificationSystem.check_and_handle_expired_trials    *)
(***************************************************************************)

\* returns [count, db]
check_and_handle_expired_trials(d, t, ok) ==
    LET today == date_of(t)
        expired == {u \in DOMAIN get_all_users(d) :
                      /\ Get(d.users[u], "status") = "trial"
                      /\ TruthyTime(d.users[u]["trial_end"])
                      /\ date_of(d.users[u]["trial_end"]) < today}
    IN  [count |-> Cardinality(expired),
         db |-> update_each(d, expired, FALSE, [status |-> "free"], t, ok)]

(***************************************************************************)
(* admin_panel.py: AdminPanel.  Each returns [ok, msg, db].  A dict is      *)
(* falsy only when it is empty, and get_user never returns an empty dict.  *)
(***************************************************************************)

DictTruthy(r) == DOMAIN r # {}

\* handle_user_approval counting the refused approval in the record
handle_user_approval_counting(d, u, t, ok) ==
    LET user_data == get_user(d, u, t)
    IN  IF ~Truthy(Get(user_data, "account_number"))
        THEN [ok |-> FALSE, msg |-> "User hasn't submitted account details.",
              db |-> update_user(d, u, FALSE,
                                 [verification_requests |->
                                     user_data["verification_requests"] + 1],
                                 t, ok)]
        ELSE [ok |-> TRUE, msg |-> "approved",
              db |-> approve_user(d, u, t, ok)]

handle_user_approval(d, u, t, ok) ==
    LET user_data == get_user(d, u, t)
    IN  IF ~Truthy(Get(user_data, "account_number"))
        THEN [ok |-> FALSE, msg |-> "User hasn't submitted account details.",
              db |-> d]
        ELSE [ok |-> TRUE, msg |-> "approved",
              db |-> approve_user(d, u, t, ok)]

handle_user_rejection(d, u, t, ok) ==
    [ok |-> TRUE, msg |-> "rejected", db |-> reject_user(d, u, t, ok)]

admin_suspend_user(d, u, reason, t, ok) ==
    LET user_data == get_user(d, u, t)
    IN  IF ~DictTruthy(user_data)
        THEN [ok |-> FALSE, msg |-> "User not found.", db |-> d]
        ELSE [ok |-> TRUE, msg |-> "suspended",
              db |-> suspend_user(d, u, reason, t, ok)]

admin_reactivate_user(d, u, t, ok) ==
    LET user_data == get_user(d, u, t)
    IN  IF ~DictTruthy(user_data)
        THEN [ok |-> FALSE, msg |-> "User not found.", db |-> d]
        ELSE IF ~user_data["suspended"]
        THEN [ok |-> FALSE, msg |-> "User is not suspended.", db |-> d]
        ELSE [ok |-> TRUE, msg |-> "reactivated",
              db |-> reactivate_user(d, u, t, ok)]

\* cleanup_expired_data written to delete the inactive records
cleanup_expired_data_deleting(d, t, ok) ==
    LET r1 == cleanup_expired_trials(d, t, ok)
        cutoff_date == t - InactiveDays * SecondsPerDay
        inactive == {u \in DOMAIN r1.db.users :
                       /\ TruthyTime(r1.db.users[u]["last_activity"])
                       /\ Get(r1.db.users[u], "status") = "free"
                       /\ ~r1.db.users[u]["verified"]
                       /\ r1.db.users[u]["last_activity"] < cutoff_date}
    IN  [expired_trials |-> r1.count,
         inactive_users |-> Cardinality(inactive),
         db |-> [r1.db EXCEPT !.users =
                    [u \in DOMAIN @ \ inactive |-> @[u]]]]

\* returns [expired_trials, inactive_users, db]
cleanup_expired_data(d, t, ok) ==
    LET r1 == cleanup_expired_trials(d, t, ok)
        cutoff_date == t - InactiveDays * SecondsPerDay
        inactive == {u \in DOMAIN r1.db.users :
                       /\ TruthyTime(r1.db.users[u]["last_activity"])
                       /\ Get(r1.db.users[u], "status") = "free"
                       /\ ~r1.db.users[u]["verified"]
                       /\ r1.db.users[u]["last_activity"] < cutoff_date}
    IN  [expired_trials |-> r1.count,
         inactive_users |-> Cardinality(inactive),
         db |-> update_each(r1.db, inactive, FALSE, [inactive |-> TRUE], t, ok)]

(***************************************************************************)
(* signal_manager.py: SignalManager.  The object is the record sm:         *)
(*   signals   the in-memory dict, signal id -> signal                     *)
(*   file      signals.json: exists, and its JSON document                 *)
(* An instant t is a second and the millisecond within it, [s, ms].  The   *)
(* id "SIG_" + strftime('%Y%m%d_%H%M%S') names the second of the instant   *)
(* and is the number of that second; created_at and close_time,            *)
(* isoformat() strings, are the instant itself.  Prices are integers.      *)
(***************************************************************************)

\* close_price None, close_time None
NoPrice == -1
NoInstant == [s |-> NoTime, ms |-> 0]

\* f"SIG_{datetime.now().strftime('%Y%m%d_%H%M%S')}"
signal_id_of(t) == t.s

\* a file json.load rejects gives no signals, as the empty document does:
\* the model holds it as the empty document
load_signals(file) == IF file.exists THEN file.doc ELSE EmptyMap

\* __init__, given the signals.json found on disk
SignalManager(file) == [signals |-> load_signals(file), file |-> file]

NewSignalManager == SignalManager([exists |-> FALSE, doc |-> EmptyMap])

\* the keys of the ledger are strings already: the document is the dict
save_signals(s, ok) ==
    IF ok = Ok
    THEN [s EXCEPT !.file = [exists |-> TRUE, doc |-> s.signals]]
    ELSE IF ok = Torn
    THEN [s EXCEPT !.file = [exists |-> TRUE, doc |-> EmptyMap]]
    ELSE s

\* returns [ret, sm]
create_signal(s, signal_type, symbol, action, entry_price, stop_loss, take_profit, description, t, ok) ==
    LET signal_id == signal_id_of(t)
        signal_data ==
            [signal_id |-> signal_id, type |-> signal_type,
             symbol |-> symbol, action |-> action,
             entry_price |-> entry_price, stop_loss |-> stop_loss,
             take_profit |-> take_profit, description |-> description,
             created_at |-> t, status |-> "active",
             results |-> [hit_sl |-> FALSE, hit_tp |-> FALSE,
                          manual_close |-> FALSE, close_price |-> NoPrice,
                          close_time |-> NoInstant, profit_loss |-> 0]]
        s1 == [s EXCEPT !.signals = (signal_id :> signal_data) @@ @]
    IN  [ret |-> signal_id, sm |-> save_signals(s1, ok)]

\* close_signal with the profit of a BUY for every action
close_signal_as_buy(s, signal_id, close_price, close_reason, t, ok) ==
    IF signal_id \notin DOMAIN s.signals
    THEN [ret |-> FALSE, sm |-> s]
    ELSE LET signal == s.signals[signal_id]
             entry_price == signal.entry_price
             profit_loss == close_price - entry_price
             results ==
                 [signal.results EXCEPT
                     !.close_price = close_price,
                     !.close_time = t,
                     !.profit_loss = profit_loss,
                     !.hit_sl = IF close_reason = "sl" THEN TRUE ELSE @,
                     !.hit_tp = IF close_reason # "sl" /\ close_reason = "tp"
                                THEN TRUE ELSE @,
                     !.manual_close = IF close_reason \notin {"sl", "tp"}
                                      THEN TRUE ELSE @]
             s1 == [s EXCEPT !.signals[signal_id] =
                       [signal EXCEPT !.status = "closed",
                                      !.results = results]]
         IN  [ret |-> TRUE, sm |-> save_signals(s1, ok)]

\* close_signal that writes the ledger file also when the id is unknown
close_signal_always_saving(s, signal_id, close_price, close_reason, t, ok) ==
    IF signal_id \notin DOMAIN s.signals
    THEN [ret |-> FALSE, sm |-> save_signals(s, ok)]
    ELSE LET signal == s.signals[signal_id]
             entry_price == signal.entry_price
             profit_loss == IF signal.action = "BUY"
                            THEN close_price - entry_price
                            ELSE entry_price - close_price
             results ==
                 [signal.results EXCEPT
                     !.close_price = close_price,
                     !.close_time = t,
                     !.profit_loss = profit_loss,
                     !.hit_sl = IF close_reason = "sl" THEN TRUE ELSE @,
                     !.hit_tp = IF close_reason # "sl" /\ close_reason = "tp"
                                THEN TRUE ELSE @,
                     !.manual_close = IF close_reason \notin {"sl", "tp"}
                                      THEN TRUE ELSE @]
             s1 == [s EXCEPT !.signals[signal_id] =
                       [signal EXCEPT !.status = "closed",
                                      !.results = results]]
         IN  [ret |-> TRUE, sm |-> save_signals(s1, ok)]

\* returns [ret, sm]
close_signal(s, signal_id, close_price, close_reason, t, ok) ==
    IF signal_id \notin DOMAIN s.signals
    THEN [ret |-> FALSE, sm |-> s]
    ELSE LET signal == s.signals[signal_id]
             entry_price == signal.entry_price
             profit_loss == IF signal.action = "BUY"
                            THEN close_price - entry_price
                            ELSE entry_price - close_price
             results ==
                 [signal.results EXCEPT
                     !.close_price = close_price,
                     !.close_time = t,
                     !.profit_loss = profit_loss,
                     !.hit_sl = IF close_reason = "sl" THEN TRUE ELSE @,
                     !.hit_tp = IF close_reason # "sl" /\ close_reason = "tp"
                                THEN TRUE ELSE @,
                     !.manual_close = IF close_reason \notin {"sl", "tp"}
                                      THEN TRUE ELSE @]
             s1 == [s EXCEPT !.signals[signal_id] =
                       [signal EXCEPT !.status = "closed",
                                      !.results = results]]
         IN  [ret |-> TRUE, sm |-> save_signals(s1, ok)]

\* a < b for two instants
Before(a, b) == a.s < b.s \/ (a.s = b.s /\ a.ms < b.ms)

\* a quotient of two integers, kept as the pair (Python has a float)
Quotient(n, d) == [num |-> n, den |-> d]
Zero == Quotient(0, 1)

RECURSIVE SumProfit(_, _)
SumProfit(signals, ids) ==
    IF ids = {} THEN 0
    ELSE LET id == CHOOSE x \in ids : TRUE
         IN  signals[id].results.profit_loss + SumProfit(signals, ids \ {id})

\* get_signal_performance with the win rate taken over all signals of the
\* window
get_signal_performance_of_total(s, days, t) ==
    LET cutoff_date == [s |-> t.s - days * SecondsPerDay, ms |-> t.ms]
        counted == {id \in DOMAIN s.signals :
                       ~Before(s.signals[id].created_at, cutoff_date)}
        closed == {id \in counted : s.signals[id].status = "closed"}
        total_signals == Cardinality(counted)
        closed_signals == Cardinality(closed)
        profitable_signals ==
            Cardinality({id \in closed : s.signals[id].results.profit_loss > 0})
        total_profit == SumProfit(s.signals, closed)
        hit_sl_count ==
            Cardinality({id \in closed : s.signals[id].results.hit_sl})
        hit_tp_count ==
            Cardinality({id \in closed : /\ ~s.signals[id].results.hit_sl
                                         /\ s.signals[id].results.hit_tp})
    IN  [total_signals |-> total_signals,
         closed_signals |-> closed_signals,
         profitable_signals |-> profitable_signals,
         win_rate |-> IF closed_signals > 0
                      THEN Quotient(profitable_signals * 100, total_signals)
                      ELSE Zero,
         total_profit |-> total_profit,
         hit_sl_count |-> hit_sl_count,
         hit_tp_count |-> hit_tp_count,
         avg_profit |-> IF closed_signals > 0
                        THEN Quotient(total_profit, closed_signals)
                        ELSE Zero]

\* the loop over self.signals.values() counts; counted are the signals it
\* does not skip
get_signal_performance(s, days, t) ==
    LET cutoff_date == [s |-> t.s - days * SecondsPerDay, ms |-> t.ms]
        counted == {id \in DOMAIN s.signals :
                       ~Before(s.signals[id].created_at, cutoff_date)}
        closed == {id \in counted : s.signals[id].status = "closed"}
        total_signals == Cardinality(counted)
        closed_signals == Cardinality(closed)
        profitable_signals ==
            Cardinality({id \in closed : s.signals[id].results.profit_loss > 0})
        total_profit == SumProfit(s.signals, closed)
        hit_sl_count ==
            Cardinality({id \in closed : s.signals[id].results.hit_sl})
        hit_tp_count ==
            Cardinality({id \in closed : /\ ~s.signals[id].results.hit_sl
                                         /\ s.signals[id].results.hit_tp})
    IN  [total_signals |-> total_signals,
         closed_signals |-> closed_signals,
         profitable_signals |-> profitable_signals,
         win_rate |-> IF closed_signals > 0
                      THEN Quotient(profitable_signals * 100, closed_signals)
                      ELSE Zero,
         total_profit |-> total_profit,
         hit_sl_count |-> hit_sl_count,
         hit_tp_count |-> hit_tp_count,
         avg_profit |-> IF closed_signals > 0
                        THEN Quotient(total_profit, closed_signals)
                        ELSE Zero]

(***************************************************************************)
(* State machine.                                                          *)
(*   db, io_ok   the store object, how a write of a file goes now          *)
(*   sm     the signal ledger object                                       *)
(*   now, ms   the clock: the second, and the millisecond within it        *)
(*   hist   the last step: its name, the user id it was called with (0     *)
(*          when it has none), the fields and the immediate flag it was    *)
(*          called with, what it returned, and what that user was before   *)
(*          it (stored or not, status, verified)                           *)
(*   approved_on_trial   the users whose approval ran while they were on   *)
(*          trial and who were neither rejected nor suspended since        *)
(*   steps  the number of calls made and of advances of the clock          *)
(*   save_run   the immediate saves made so far each more than             *)
(*          BackupInterval seconds after the one before: how many, and the *)
(*          time of the last immediate save                                *)
(*   approved   the users whose last approval or rejection carried out    *)
(*          was an approval                                                *)
(*   th     the threads at work in the store, where the statements of      *)
(*          save_users, _background_save and shutdown are steps of their   *)
(*          own: NoThreads where a call is one step                        *)
(***************************************************************************)

\* the store constructed where there is no record file
NewDb == UserDatabase([exists |-> FALSE, doc |-> EmptyMap], EmptyMap)

\* What an earlier run of the bot, at time 0, made of the empty store: a
\* user who started a trial, sent an account number and was approved, and
\* a user who sent an account number and was approved.
TrialApprovedRun(u) ==
    LET a == CHOOSE x \in Accounts : TRUE
        d1 == handle_trial_choice(NewDb, u, 0, Ok)
        d2 == handle_account_number(d1, u, a, 0, Ok)
    IN  handle_user_approval(d2, u, 0, Ok).db

PremiumRun(u) ==
    LET a == CHOOSE x \in Accounts : TRUE
        d1 == handle_account_number(NewDb, u, a, 0, Ok)
    IN  handle_user_approval(d1, u, 0, Ok).db

EarlierRuns ==
    {NewDb} \cup {TrialApprovedRun(u) : u \in UserIds}
            \cup {PremiumRun(u) : u \in UserIds}

Was(d, u) ==
    [stored |-> u \in DOMAIN d.users,
     status |-> IF u \in DOMAIN d.users THEN d.users[u]["status"] ELSE "free",
     verified |-> IF u \in DOMAIN d.users THEN d.users[u]["verified"] ELSE FALSE]

\* what a call returned: None, a string, a bool, a count or a dict
NoneRet == [none |-> TRUE]
StrRet(v) == [str |-> v]
BoolRet(v) == [bool |-> v]
IntRet(v) == [int |-> v]
DictRet(v) == [dict |-> v]
ListRet(v) == [list |-> v]

IdRet(v) == [id |-> v]

NoRun == [n |-> 0, last |-> NoTime]

\* the users of store d that an approval left verified
ApprovedBefore(d) ==
    {u \in DOMAIN d.users :
        "verified" \in DOMAIN d.users[u] /\ d.users[u]["verified"]}

\* no caller inside a call, no Thread object made, _save_thread None
NoThreads ==
    [pc |-> <<>>, flag |-> <<>>, loops |-> <<>>, save_thread |-> 0,
     raised |-> FALSE, down |-> FALSE, mixed |-> FALSE]

Op(name, u, kw, imm, ret) ==
    [op |-> name, uid |-> u, kw |-> kw, immediate |-> imm, ret |-> ret,
     was |-> Was(db, u)]

OnTrial(d, u) ==
    /\ u \in DOMAIN d.users
    /\ d.users[u]["status"] = "trial"
    /\ TruthyTime(d.users[u]["trial_end"])

\* the bot starts on what an earlier run left on disk
Init ==
    /\ \E r \in EarlierRuns : db = UserDatabase(r.file, r.backups)
    /\ sm = NewSignalManager
    /\ now = 0
    /\ ms = 0
    /\ steps = 0
    /\ io_ok = Ok
    /\ hist = Op("init", 0, EmptyMap, FALSE, NoneRet)
    /\ approved_on_trial =
         {u \in DOMAIN db.users : OnTrial(db, u) /\ db.users[u]["verified"]}
    /\ save_run = NoRun
    /\ approved = ApprovedBefore(db)
    /\ th = NoThreads

\* a call that makes the store d and returns ret; acted tells whether an
\* approval, rejection or suspension was carried out
Call(name, u, kw, imm, ret, d, acted) ==
    /\ steps < MaxSteps
    /\ ~db.shutdown
    /\ db' = d
    /\ steps' = steps + 1
    /\ hist' = Op(name, u, kw, imm, ret)
    /\ approved_on_trial' =
         IF acted = "approve" /\ OnTrial(db, u)
         THEN approved_on_trial \cup {u}
         ELSE IF acted \in {"reject", "suspend"}
         THEN approved_on_trial \ {u}
         ELSE approved_on_trial
    /\ approved' = IF acted = "approve" THEN approved \cup {u}
                   ELSE IF acted = "reject" THEN approved \ {u}
                   ELSE approved
    /\ UNCHANGED <<sm, now, ms, io_ok, save_run, th>>

Tick ==
    /\ steps < MaxSteps
    /\ \E s \in ClockSteps : now' = now + s
    /\ steps' = steps + 1
    /\ hist' = Op("tick", 0, EmptyMap, FALSE, NoneRet)
    /\ ms' = 0
    /\ UNCHANGED <<db, sm, io_ok, approved_on_trial, approved, save_run, th>>

BackgroundSave ==
    /\ db.save_thread = "alive"
    /\ db' = background_save(db, now, io_ok)
    /\ hist' = Op("background_save", 0, EmptyMap, FALSE, NoneRet)
    /\ UNCHANGED <<sm, now, ms, steps, io_ok, approved_on_trial, approved, save_run, th>>

CleanupOldBackups ==
    /\ db.cleanup_threads > 0
    /\ db' = cleanup_old_backups(db)
    /\ hist' = Op("cleanup_old_backups", 0, EmptyMap, FALSE, NoneRet)
    /\ UNCHANGED <<sm, now, ms, steps, io_ok, approved_on_trial, approved, save_run, th>>

(***************************************************************************)
(* The bot: the handlers of main.py, the admin commands and the jobs.      *)
(***************************************************************************)

GetUserStatus(u) ==
    LET r == get_user_status(db, u, now, io_ok)
    IN  Call("get_user_status", u, EmptyMap, FALSE, StrRet(r.ret), r.db, "")

HandleTrialChoice(u) ==
    Call("handle_trial_choice", u, EmptyMap, TRUE, NoneRet,
         handle_trial_choice(db, u, now, io_ok), "")

StartRegistration(u) ==
    Call("start_registration_conversation", u, EmptyMap, FALSE, NoneRet,
         start_registration_conversation(db, u, now, io_ok), "")

HandleAccountNumber(u) ==
    \E a \in Accounts :
        Call("handle_account_number", u, EmptyMap, FALSE, NoneRet,
             handle_account_number(db, u, a, now, io_ok), "")

AdminApprove(u) ==
    LET r == handle_user_approval(db, u, now, io_ok)
    IN  Call("handle_user_approval", u, EmptyMap, TRUE, BoolRet(r.ok), r.db,
             IF r.ok THEN "approve" ELSE "")

AdminReject(u) ==
    /\ get_user(db, u, now)["verification_requests"] < MaxRejects
    /\ LET r == handle_user_rejection(db, u, now, io_ok)
       IN  Call("handle_user_rejection", u, EmptyMap, TRUE, BoolRet(r.ok), r.db,
                "reject")

AdminSuspend(u) ==
    \E reason \in Reasons :
        LET r == admin_suspend_user(db, u, reason, now, io_ok)
        IN  Call("admin_suspend_user", u, EmptyMap, TRUE, BoolRet(r.ok), r.db,
                 IF r.ok THEN "suspend" ELSE "")

AdminReactivate(u) ==
    LET r == admin_reactivate_user(db, u, now, io_ok)
    IN  Call("admin_reactivate_user", u, EmptyMap, TRUE, BoolRet(r.ok), r.db, "")

CheckTrialExpiry ==
    Call("check_trial_expiry", 0, EmptyMap, FALSE, NoneRet,
         check_trial_expiry(db, now, io_ok), "")

CheckAndHandleExpiredTrials ==
    LET r == check_and_handle_expired_trials(db, now, io_ok)
    IN  Call("check_and_handle_expired_trials", 0, EmptyMap, FALSE, IntRet(r.count),
             r.db, "")

CleanupExpiredData ==
    LET r == cleanup_expired_data(db, now, io_ok)
    IN  Call("cleanup_expired_data", 0, EmptyMap, TRUE, IntRet(r.expired_trials),
             r.db, "")

Next ==
    \/ Tick
    \/ \E u \in UserIds : GetUserStatus(u)
    \/ \E u \in UserIds : HandleTrialChoice(u)
    \/ \E u \in UserIds : StartRegistration(u)
    \/ \E u \in UserIds : HandleAccountNumber(u)
    \/ \E u \in UserIds : AdminApprove(u)
    \/ \E u \in UserIds : AdminReject(u)
    \/ \E u \in UserIds : AdminSuspend(u)
    \/ \E u \in UserIds : AdminReactivate(u)
    \/ CheckTrialExpiry
    \/ CheckAndHandleExpiredTrials
    \/ CleanupExpiredData
    \/ BackgroundSave
    \/ CleanupOldBackups

Spec == Init /\ [][Next]_vars

(***************************************************************************)
(* The store called directly: the methods of UserDatabase called on a      *)
(* new store, with update fields drawn from UpdateFields(now).             *)
(***************************************************************************)

\* the fields update_user is called with: those main.py and database.py
\* pass, and a last_activity and a premium_since of the caller's own
UpdateFields(t) ==
    {[full_name |-> "Ann"],
     [language |-> "en"],
     [status |-> "premium"],
     [status |-> "free"],
     [status |-> "trial", trial_end |-> t + TrialDays * SecondsPerDay],
     [last_activity |-> 0],
     [status |-> "premium", premium_since |-> 0]}

\* get_user written as dict.setdefault: the default record is inserted
ApiGetUserInserting(u) ==
    Call("get_user", u, EmptyMap, FALSE, DictRet(get_user(db, u, now)),
         [db EXCEPT !.users = IF u \in DOMAIN db.users THEN @
                              ELSE (u :> DefaultUser(u, now)) @@ @],
         "")

ApiGetUser(u) ==
    Call("get_user", u, EmptyMap, FALSE, DictRet(get_user(db, u, now)), db, "")

ApiUpdateUser(u) ==
    \E kw \in UpdateFields(now), imm \in BOOLEAN :
        Call("update_user", u, kw, imm, NoneRet,
             update_user(db, u, imm, kw, now, io_ok), "")

ApiSuspendUser(u) ==
    \E reason \in Reasons :
        Call("suspend_user", u, EmptyMap, TRUE, NoneRet,
             suspend_user(db, u, reason, now, io_ok), "suspend")

ApiReactivateUser(u) ==
    Call("reactivate_user", u, EmptyMap, TRUE, NoneRet,
         reactivate_user(db, u, now, io_ok), "")

ApiApproveUser(u) ==
    Call("approve_user", u, EmptyMap, TRUE, NoneRet,
         approve_user(db, u, now, io_ok), "approve")

ApiRejectUser(u) ==
    /\ get_user(db, u, now)["verification_requests"] < MaxRejects
    /\ Call("reject_user", u, EmptyMap, TRUE, NoneRet,
            reject_user(db, u, now, io_ok), "reject")

ApiShutdown ==
    /\ ~db.shutdown
    /\ db' = shutdown(db, now, io_ok)
    /\ hist' = Op("shutdown", 0, EmptyMap, FALSE, NoneRet)
    /\ UNCHANGED <<sm, now, ms, steps, io_ok, approved_on_trial, approved, save_run, th>>

StoreNext ==
    \/ Tick
    \/ \E u \in UserIds : ApiGetUser(u)
    \/ \E u \in UserIds : ApiUpdateUser(u)
    \/ \E u \in UserIds : ApiSuspendUser(u)
    \/ \E u \in UserIds : ApiReactivateUser(u)
    \/ \E u \in UserIds : ApiApproveUser(u)
    \/ \E u \in UserIds : ApiRejectUser(u)
    \/ BackgroundSave
    \/ CleanupOldBackups

\* a store constructed where there is no record file
StoreInit ==
    /\ db = NewDb
    /\ sm = NewSignalManager
    /\ now = 0
    /\ ms = 0
    /\ steps = 0
    /\ io_ok = Ok
    /\ hist = Op("init", 0, EmptyMap, FALSE, NoneRet)
    /\ approved_on_trial = {}
    /\ save_run = NoRun
    /\ approved = ApprovedBefore(db)
    /\ th = NoThreads

StoreSpec == StoreInit /\ [][StoreNext]_vars

(***************************************************************************)
(* The signal ledger: the /signal and /close_signal commands of main.py    *)
(* on a new ledger.                                                        *)
(***************************************************************************)

HalfSecond == 500
Symbols == {"XAUUSD"}
Actions == {"BUY", "SELL"}
Prices == {90, 100, 110}
Distance == 10
CloseReasons == {"sl", "tp", "manual"}

\* datetime.now()
Instant == [s |-> now, ms |-> ms]

\* half a second passes
Later ==
    /\ ms = 0
    /\ ms' = HalfSecond
    /\ hist' = Op("tick", 0, EmptyMap, FALSE, NoneRet)
    /\ UNCHANGED <<db, sm, now, steps, io_ok, approved_on_trial, approved, save_run, th>>

LedgerCall(name, kw, ret, s) ==
    /\ steps < MaxSteps
    /\ sm' = s
    /\ steps' = steps + 1
    /\ hist' = Op(name, 0, kw, FALSE, ret)
    /\ UNCHANGED <<db, now, ms, io_ok, approved_on_trial, approved, save_run, th>>

\* signal_command: the stop loss lies below a BUY entry and above a SELL
\* entry, the take profit on the other side
CreateSignal ==
    \E symbol \in Symbols, action \in Actions, entry_price \in Prices :
        LET away == IF action = "BUY" THEN Distance ELSE 0 - Distance
            r == create_signal(sm, "entry", symbol, action, entry_price,
                               entry_price - away, entry_price + away, "",
                               Instant, io_ok)
        IN  LedgerCall("create_signal",
                       [action |-> action, entry_price |-> entry_price],
                       IdRet(r.ret), r.sm)

\* close_signal_command: the id of a signal of the ledger, or an id that no
\* signal has (the id of the second to come)
CloseSignal ==
    \E signal_id \in DOMAIN sm.signals \cup {now + 1},
       close_price \in Prices, reason \in CloseReasons :
        LET r == close_signal(sm, signal_id, close_price, reason,
                              Instant, io_ok)
        IN  LedgerCall("close_signal",
                       [signal_id |-> signal_id, close_price |-> close_price,
                        close_reason |-> reason],
                       BoolRet(r.ret), r.sm)

LedgerNext ==
    \/ Tick
    \/ Later
    \/ CreateSignal
    \/ CloseSignal

LedgerSpec == StoreInit /\ [][LedgerNext]_vars

IsLedgerCall(name) ==
    /\ steps' = steps + 1
    /\ hist'.op = name

Flags(signal) ==
    {f \in {"hit_sl", "hit_tp", "manual_close"} : signal.results[f]}

(***************************************************************************)
(* Properties.  IsCall(name, u) holds of a step that is the call name(u).  *)
(***************************************************************************)

IsCall(name, u) ==
    /\ steps' = steps + 1
    /\ hist'.op = name
    /\ hist'.uid = u

Stored(u) == u \in DOMAIN db.users

\* C1: in every reachable state a stored record with suspended = true has
\* status "suspended" and a suspension_reason that is not None.
SuspendedHasStatusAndReason ==
    \A u \in DOMAIN db.users :
        db.users[u]["suspended"] =>
            /\ db.users[u]["status"] = "suspended"
            /\ db.users[u]["suspension_reason"] # None

\* C2: a user approved while on trial, and neither rejected nor suspended
\* since, leaves the trial once trial_end has passed only for "premium",
\* whichever entry point makes the change.
ApprovedTrialEndsPremium ==
    [][\A u \in approved_on_trial \cap approved_on_trial' :
          (/\ OnTrial(db, u)
           /\ db.users[u]["trial_end"] <= now
           /\ db'.users[u]["status"] # db.users[u]["status"])
          => db'.users[u]["status"] = "premium"]_vars

\* C3: the status read path on a trial whose trial_end date is today or
\* earlier writes and returns "premium" when verified and "free" otherwise;
\* on a trial whose trial_end date is after today it returns "trial".
StatusReadEndsTrial ==
    [][\A u \in UserIds :
          (IsCall("get_user_status", u) /\ OnTrial(db, u)) =>
              IF date_of(db.users[u]["trial_end"]) <= date_of(now)
              THEN IF db.users[u]["verified"]
                   THEN /\ hist'.ret = StrRet("premium")
                        /\ db'.users[u]["status"] = "premium"
                   ELSE /\ hist'.ret = StrRet("free")
                        /\ db'.users[u]["status"] = "free"
              ELSE /\ hist'.ret = StrRet("trial")
                   /\ db'.users[u]["status"] = "trial"]_vars

\* a verified trial that ended today was read and became premium
StatusReadEndsTrialWitness ==
    /\ hist.op = "get_user_status"
    /\ hist.was.status = "trial"
    /\ hist.was.verified
    /\ hist.ret = StrRet("premium")
    /\ db.users[hist.uid]["status"] = "premium"
    /\ date_of(db.users[hist.uid]["trial_end"]) = date_of(now)

\* C4: approve_user on a record that is on trial sets verified and stamps
\* last_verification and leaves status "trial"; on any other record, stored
\* or not, it sets verified, status "premium" and stamps last_verification.
ApproveKeepsTrial ==
    [][\A u \in UserIds :
          IsCall("approve_user", u) =>
              /\ u \in DOMAIN db'.users
              /\ db'.users[u]["verified"] = TRUE
              /\ db'.users[u]["last_verification"] = now
              /\ db'.users[u]["status"] =
                     IF OnTrial(db, u) THEN "trial" ELSE "premium"]_vars

\* a user on trial was approved and is still on trial
ApproveKeepsTrialWitness ==
    /\ hist.op = "approve_user"
    /\ hist.was.status = "trial"
    /\ db.users[hist.uid]["status"] = "trial"
    /\ db.users[hist.uid]["verified"]

\* C5: approve, suspend and reactivate through the admin layer, for an id
\* with no stored record, report failure and leave the id absent.
AdminUnknownIdNotFound ==
    [][\A u \in UserIds :
          (/\ \/ IsCall("handle_user_approval", u)
              \/ IsCall("admin_suspend_user", u)
              \/ IsCall("admin_reactivate_user", u)
           /\ ~Stored(u))
          => /\ hist'.ret = BoolRet(FALSE)
             /\ u \notin DOMAIN db'.users]_vars

\* C6: a reactivation that directly follows the suspension of the same user
\* leaves suspended false, suspension_reason None, and status "premium" if
\* the user was verified when suspended and "free" otherwise.
SuspendReactivateRoundTrip ==
    [][\A u \in UserIds :
          (/\ hist.op = "admin_suspend_user" /\ hist.uid = u /\ hist.ret = BoolRet(TRUE)
           /\ IsCall("admin_reactivate_user", u))
          => /\ hist'.ret = BoolRet(TRUE)
             /\ db'.users[u]["suspended"] = FALSE
             /\ db'.users[u]["suspension_reason"] = None
             /\ db'.users[u]["status"] =
                    IF hist.was.verified THEN "premium" ELSE "free"]_vars

\* a suspended, verified user was reactivated to premium
SuspendReactivateWitness ==
    /\ hist.op = "admin_reactivate_user"
    /\ hist.ret = BoolRet(TRUE)
    /\ hist.was.status = "suspended"
    /\ hist.was.verified
    /\ db.users[hist.uid]["status"] = "premium"
    /\ ~db.users[hist.uid]["suspended"]

\* premium_since is stamped by the step that takes u to "premium"
StampedOnTransition(u) ==
    (get_user(db, u, now)["status"] # "premium"
        /\ db'.users[u]["status"] = "premium")
    => db'.users[u]["premium_since"] = now

StaysPremium(u) ==
    /\ Stored(u)
    /\ db.users[u]["status"] = "premium"
    /\ db'.users[u]["status"] = "premium"

\* C7 as stated: premium_since is stamped by the update that makes status
\* "premium" and no later update changes it while status stays "premium".
PremiumSinceNeverChanges ==
    [][\A u \in DOMAIN db'.users :
          /\ StampedOnTransition(u)
          /\ StaysPremium(u) =>
                db'.users[u]["premium_since"] = db.users[u]["premium_since"]]_vars

\* C7 amended: premium_since is stamped by the update that makes status
\* "premium", and while status stays "premium" no later update changes it
\* unless that update itself supplies premium_since.
PremiumSinceStable ==
    [][\A u \in DOMAIN db'.users :
          /\ StampedOnTransition(u)
          /\ (StaysPremium(u)
                /\ ~(IsCall("update_user", u)
                       /\ "premium_since" \in DOMAIN hist'.kw))
             => db'.users[u]["premium_since"] = db.users[u]["premium_since"]]_vars

\* status = "premium" was passed again to a premium user at a later time
\* and premium_since kept its earlier value
PremiumSinceStableWitness ==
    /\ hist.op = "update_user"
    /\ hist.kw = [status |-> "premium"]
    /\ hist.was.status = "premium"
    /\ db.users[hist.uid]["premium_since"] # NoTime
    /\ db.users[hist.uid]["premium_since"] < now

\* C8: get_user for an id that is not stored returns the default record and
\* changes nothing: the id stays absent, and the dirty flag, the record file
\* and the rest of the store are as before.
GetUserSynthesizesWithoutInsert ==
    [][\A u \in UserIds :
          (IsCall("get_user", u) /\ ~Stored(u)) =>
              /\ db' = db
              /\ u \notin DOMAIN db'.users
              /\ db'.save_pending = db.save_pending
              /\ db'.file = db.file
              /\ hist'.ret.dict["user_id"] = u
              /\ hist'.ret.dict["status"] = "free"
              /\ hist'.ret.dict["verified"] = FALSE
              /\ hist'.ret.dict["suspended"] = FALSE
              /\ hist'.ret.dict["terms_accepted"] = FALSE
              /\ \A k \in {"country", "full_name", "email", "account_number",
                           "suspension_reason"} : hist'.ret.dict[k] = None
              /\ \A k \in {"trial_end", "subscription_end",
                           "last_verification", "premium_since"} :
                     hist'.ret.dict[k] = NoTime
              /\ hist'.ret.dict["verification_requests"] = 0
              /\ hist'.ret.dict["total_signals_received"] = 0]_vars

\* get_user was called for an id that is not stored, and it still is not
GetUserWitness ==
    /\ hist.op = "get_user"
    /\ hist.uid \notin DOMAIN db.users
    /\ hist.ret.dict["status"] = "free"

Special == {"last_activity", "premium_since"}

\* C9 as stated: after update_user the record is stored, every supplied
\* field has the supplied value, and every field not supplied other than
\* last_activity and premium_since has its previous value, or its default.
UpdateMergesAllSupplied ==
    [][\A u \in UserIds :
          IsCall("update_user", u) =>
              LET old == get_user(db, u, now)
                  kw == hist'.kw
              IN  /\ u \in DOMAIN db'.users
                  /\ \A k \in DOMAIN kw : db'.users[u][k] = kw[k]
                  /\ \A k \in (DOMAIN old \ DOMAIN kw) \ Special :
                         db'.users[u][k] = old[k]]_vars

\* C9 amended: the same, except that last_activity is the current time
\* whether supplied or not, and that a supplied premium_since is replaced by
\* the current time when the update takes status to "premium".
UpdateMerges ==
    [][\A u \in UserIds :
          IsCall("update_user", u) =>
              LET old == get_user(db, u, now)
                  kw == hist'.kw
              IN  /\ u \in DOMAIN db'.users
                  /\ \A k \in DOMAIN kw \ Special : db'.users[u][k] = kw[k]
                  /\ db'.users[u]["last_activity"] = now
                  /\ "premium_since" \in DOMAIN kw =>
                        db'.users[u]["premium_since"] =
                            IF /\ "status" \in DOMAIN kw
                               /\ kw["status"] = "premium"
                               /\ old["status"] # "premium"
                            THEN now
                            ELSE kw["premium_since"]
                  /\ \A k \in (DOMAIN old \ DOMAIN kw) \ Special :
                         db'.users[u][k] = old[k]]_vars

\* update_user(full_name = "Ann") created the record: full_name is "Ann"
\* and status is the default "free"
UpdateMergesWitness ==
    /\ hist.op = "update_user"
    /\ hist.kw = [full_name |-> "Ann"]
    /\ ~hist.was.stored
    /\ hist.uid \in DOMAIN db.users
    /\ db.users[hist.uid]["full_name"] = "Ann"
    /\ db.users[hist.uid]["status"] = "free"

\* C10: every update_user call sets last_activity to the current time, also
\* when the caller passes a last_activity of its own, and no step makes a
\* stored last_activity smaller.
LastActivityStamped ==
    [][\A u \in UserIds :
          /\ IsCall("update_user", u) =>
                db'.users[u]["last_activity"] = now
          /\ Stored(u) =>
                db'.users[u]["last_activity"] >= db.users[u]["last_activity"]]_vars

\* an update passed an older last_activity and the record has the current time
LastActivityWitness ==
    /\ hist.op = "update_user"
    /\ "last_activity" \in DOMAIN hist.kw
    /\ hist.kw["last_activity"] < now
    /\ hist.was.stored
    /\ db.users[hist.uid]["last_activity"] = now

\* C11: a rejection leaves verified false and status "free" and adds exactly
\* one to verification_requests (a record created by the rejection counts
\* from 0), and no other step changes the counter of a stored record or
\* creates a record whose counter is not 0.
RejectCountsOnce ==
    [][\A u \in DOMAIN db'.users :
          LET before == get_user(db, u, now)["verification_requests"]
          IN  IF IsCall("handle_user_rejection", u)
              THEN /\ db'.users[u]["verification_requests"] = before + 1
                   /\ db'.users[u]["verified"] = FALSE
                   /\ db'.users[u]["status"] = "free"
              ELSE db'.users[u]["verification_requests"] = before]_vars

\* a user was rejected, suspended and rejected again: the counter is 2
RejectCountsOnceWitness ==
    /\ hist.op = "handle_user_rejection"
    /\ db.users[hist.uid]["verification_requests"] = 2
    /\ db.users[hist.uid]["suspended"]
    /\ db.users[hist.uid]["status"] = "free"

Critical == {"suspend_user", "reactivate_user", "approve_user", "reject_user"}

\* C12: when suspend_user, reactivate_user, approve_user or reject_user
\* returns and the write did not fail, the record file exists and its
\* document is the in-memory store, the change just made included.
CriticalFlushes ==
    [][\A u \in UserIds :
          (/\ \E name \in Critical : IsCall(name, u)
           /\ io_ok = Ok)
          => /\ db'.file.exists
             /\ db'.file.doc = json_dump(db'.users)
             /\ load_users(db'.file) = db'.users
             /\ u \in DOMAIN db'.users
             /\ db'.file.doc[ToString(u)] = db'.users[u]]_vars

\* a suspension wrote the file: the document has the suspension and the
\* full_name that an earlier debounced update had left in memory only
CriticalFlushesWitness ==
    /\ hist.op = "suspend_user"
    /\ db.save_thread = "alive"
    /\ db.save_pending
    /\ db.file.exists
    /\ db.file.doc[ToString(hist.uid)]["status"] = "suspended"
    /\ db.file.doc[ToString(hist.uid)]["full_name"] = "Ann"

(***************************************************************************)
(* Saving: update_user with either flag, shutdown, the background loop     *)
(* and the backup pruning threads, on a new store.  The loop of            *)
(* _background_save is a thread that sleeps 5 seconds between its turns,   *)
(* so once started it always takes its next turn (weak fairness).          *)
(***************************************************************************)

FlushNext ==
    \/ Tick
    \/ \E u \in UserIds : ApiUpdateUser(u)
    \/ ApiShutdown
    \/ BackgroundSave
    \/ CleanupOldBackups

FlushSpec == StoreInit /\ [][FlushNext]_vars /\ WF_vars(BackgroundSave)

\* C13: with the background loop scheduled and no failing write, every
\* update_user(immediate = False) is followed by a state in which the dirty
\* flag is clear and the record file holds the in-memory store, that
\* update included, unless shutdown is called.
DebouncedUpdatePersisted ==
    (hist.op = "update_user" /\ ~hist.immediate)
        ~> \/ db.shutdown
           \/ /\ ~db.save_pending
              /\ db.file.exists
              /\ db.file.doc = json_dump(db.users)

\* the background loop wrote a full_name that a debounced update had set
DebouncedUpdatePersistedWitness ==
    /\ hist.op = "background_save"
    /\ ~db.shutdown
    /\ ~db.save_pending
    /\ db.file.exists
    /\ \E u \in DOMAIN db.users :
          /\ db.users[u]["full_name"] = "Ann"
          /\ db.users[u]["status"] = "free"
          /\ ~db.users[u]["suspended"]
          /\ db.file.doc[ToString(u)] = db.users[u]

\* C14: when shutdown returns and the write did not fail, loading the record
\* file gives the in-memory store, which shutdown itself does not change:
\* every update made before the call is on disk.
ShutdownDrains ==
    [][(hist'.op = "shutdown" /\ ~db.shutdown /\ io_ok = Ok)
          => /\ db'.shutdown
             /\ db'.users = db.users
             /\ load_users(db'.file) = db'.users
             /\ db'.users # EmptyMap => db'.file.doc = json_dump(db'.users)]_vars

\* shutdown was called while a debounced full_name was pending, and the
\* record file has it
ShutdownDrainsWitness ==
    /\ hist.op = "shutdown"
    /\ db.shutdown
    /\ db.save_pending
    /\ db.save_thread = "alive"
    /\ db.file.exists
    /\ \E u \in DOMAIN db.users :
          /\ db.users[u]["full_name"] = "Ann"
          /\ db.file.doc[ToString(u)] = db.users[u]

\* C15: a closed signal is immutable: no step, another close of the same id
\* included, changes its record, and so none makes it active again.
ClosedIsImmutable ==
    [][\A id \in DOMAIN sm.signals :
          sm.signals[id].status = "closed" =>
              /\ id \in DOMAIN sm'.signals
              /\ sm'.signals[id] = sm.signals[id]]_vars

\* C16: in every reachable ledger at most one of hit_sl, hit_tp and
\* manual_close is true for each signal, and exactly one for each closed
\* signal.
OneResultFlag ==
    \A id \in DOMAIN sm.signals :
        /\ Cardinality(Flags(sm.signals[id])) <= 1
        /\ sm.signals[id].status = "closed" =>
              Cardinality(Flags(sm.signals[id])) = 1

\* C17: every create_signal returns an id that no signal of the ledger has,
\* adds that one signal, active and with zeroed results, and leaves every
\* other signal as it was, also when another signal was created earlier in
\* the same second.
CreateAppends ==
    [][IsLedgerCall("create_signal") =>
          LET id == hist'.ret.id
          IN  /\ id \notin DOMAIN sm.signals
              /\ DOMAIN sm'.signals = DOMAIN sm.signals \cup {id}
              /\ sm'.signals[id].status = "active"
              /\ sm'.signals[id].results =
                     [hit_sl |-> FALSE, hit_tp |-> FALSE,
                      manual_close |-> FALSE, close_price |-> NoPrice,
                      close_time |-> NoInstant, profit_loss |-> 0]
              /\ \A other \in DOMAIN sm.signals :
                     sm'.signals[other] = sm.signals[other]]_vars

\* C18: close_signal on a signal of the ledger sets profit_loss to
\* close_price - entry_price for a BUY and to entry_price - close_price for
\* a SELL, for every entry and close price of Prices.
ProfitLossSign ==
    [][(IsLedgerCall("close_signal")
          /\ hist'.kw.signal_id \in DOMAIN sm.signals) =>
          LET id == hist'.kw.signal_id
              entry == sm.signals[id].entry_price
              close == hist'.kw.close_price
          IN  /\ hist'.ret = BoolRet(TRUE)
              /\ sm'.signals[id].results.close_price = close
              /\ sm'.signals[id].results.profit_loss =
                     IF sm.signals[id].action = "BUY"
                     THEN close - entry
                     ELSE entry - close]_vars

\* BUY 100 -> 110 gives 10, SELL 100 -> 90 gives 10 and BUY 100 -> 90
\* gives -10: the last close was one of these
ProfitLossSignWitness ==
    /\ hist.op = "close_signal"
    /\ hist.ret = BoolRet(TRUE)
    /\ LET signal == sm.signals[hist.kw.signal_id]
       IN  /\ signal.entry_price = 100
           /\ \/ /\ signal.action = "BUY"
                 /\ signal.results.close_price = 110
                 /\ signal.results.profit_loss = 10
              \/ /\ signal.action = "SELL"
                 /\ signal.results.close_price = 90
                 /\ signal.results.profit_loss = 10
              \/ /\ signal.action = "BUY"
                 /\ signal.results.close_price = 90
                 /\ signal.results.profit_loss = 0 - 10

\* C19: close_signal with an id that no signal has returns False and leaves
\* the ledger and its file as they were.
CloseUnknownChangesNothing ==
    [][(IsLedgerCall("close_signal")
          /\ hist'.kw.signal_id \notin DOMAIN sm.signals) =>
          /\ hist'.ret = BoolRet(FALSE)
          /\ sm'.signals = sm.signals
          /\ sm'.file = sm.file]_vars

\* an unknown id was closed on a ledger that has a signal
CloseUnknownWitness ==
    /\ hist.op = "close_signal"
    /\ hist.ret = BoolRet(FALSE)
    /\ hist.kw.signal_id \notin DOMAIN sm.signals
    /\ sm.signals # EmptyMap
    /\ sm.file.doc = sm.signals

(***************************************************************************)
(* Pending verifications: the registration and admin handlers and          *)
(* update_user on the stores earlier runs left, with the list of pending   *)
(* verifications asked for between them.                                   *)
(***************************************************************************)

PendingVerifications ==
    Call("get_pending_verifications", 0, EmptyMap, FALSE,
         ListRet(get_pending_verifications(db)), db, "")

PendingNext ==
    \/ \E u \in UserIds : HandleTrialChoice(u)
    \/ \E u \in UserIds : HandleAccountNumber(u)
    \/ \E u \in UserIds : AdminApprove(u)
    \/ \E u \in UserIds : AdminReject(u)
    \/ \E u \in UserIds : AdminSuspend(u)
    \/ \E u \in UserIds : AdminReactivate(u)
    \/ \E u \in UserIds : ApiUpdateUser(u)
    \/ PendingVerifications

PendingSpec == Init /\ [][PendingNext]_vars

\* C20: the list get_pending_verifications returns has an entry for a user
\* id exactly when that user is stored with an account number, not
\* verified, a status other than 'premium' and not suspended; the entry
\* carries the stored name, email, account number and creation time; and
\* the call leaves the store as it was.
PendingIsFilter ==
    [][hist'.op = "get_pending_verifications" =>
        /\ db' = db
        /\ \A e \in hist'.ret.list :
              /\ e.user_id \in DOMAIN db.users
              /\ e = [user_id |-> e.user_id,
                      full_name |-> db.users[e.user_id]["full_name"],
                      email |-> db.users[e.user_id]["email"],
                      account_number |->
                          db.users[e.user_id]["account_number"],
                      created_at |-> db.users[e.user_id]["created_at"]]
        /\ \A u \in UserIds :
              (\E e \in hist'.ret.list : e.user_id = u)
                  <=> /\ u \in DOMAIN db.users
                      /\ db.users[u]["account_number"] \notin {None, ""}
                      /\ ~db.users[u]["verified"]
                      /\ db.users[u]["status"] # "premium"
                      /\ ~db.users[u]["suspended"]]_vars

\* a suspended, unverified user with an account number is left out of the
\* list
PendingIsFilterWitness ==
    /\ hist.op = "get_pending_verifications"
    /\ \E u \in DOMAIN db.users :
          /\ db.users[u]["account_number"] \notin {None, ""}
          /\ ~db.users[u]["verified"]
          /\ db.users[u]["suspended"]
          /\ \A e \in hist.ret.list : e.user_id # u

(***************************************************************************)
(* Backups.  Updates of one user, with at most one wait of BackupInterval  *)
(* or of one second more between two calls.  BackupSpec: the updates of a  *)
(* few steps, saved at once or by the background loop, the pruning threads *)
(* and restarts of the process, on the stores earlier runs left.           *)
(* RetentionSpec: a long run of immediate saves on a new store, and the    *)
(* pruning threads.                                                        *)
(***************************************************************************)

MaxSaves == 15

BackupGaps == {BackupInterval, BackupInterval + 1}

Wait ==
    /\ steps < MaxSteps
    /\ \E g \in BackupGaps : now' = now + g
    /\ steps' = steps + 1
    /\ hist' = Op("wait", 0, EmptyMap, FALSE, NoneRet)
    /\ UNCHANGED <<db, sm, ms, io_ok, approved_on_trial, approved, save_run, th>>

\* update_user called g seconds after the step before
SavedUpdate(max, flags, gaps) ==
    \E imm \in flags, g \in gaps :
        LET u == CHOOSE x \in UserIds : TRUE
            kw == [full_name |-> "Ann"]
            t == now + g
        IN  /\ steps < max
            /\ now' = t
            /\ db' = update_user(db, u, imm, kw, t, io_ok)
            /\ steps' = steps + 1
            /\ hist' = Op("update_user", u, kw, imm, NoneRet)
            /\ save_run' =
                 IF ~imm THEN save_run
                 ELSE [n |-> IF save_run.last # NoTime
                                  /\ t - save_run.last > BackupInterval
                             THEN save_run.n + 1 ELSE 1,
                       last |-> t]
            /\ UNCHANGED <<sm, ms, io_ok, approved_on_trial, approved, th>>

Restart ==
    /\ hist.op # "restart"
    /\ db' = restart(db)
    /\ hist' = Op("restart", 0, EmptyMap, FALSE, NoneRet)
    /\ save_run' = NoRun
    /\ approved' = ApprovedBefore(restart(db))
    /\ UNCHANGED <<sm, now, ms, steps, io_ok, approved_on_trial, th>>

BackupNext ==
    \/ Wait
    \/ SavedUpdate(MaxSteps, BOOLEAN, {0})
    \/ BackgroundSave
    \/ CleanupOldBackups
    \/ Restart

BackupSpec == Init /\ [][BackupNext]_vars

RetentionNext ==
    \/ SavedUpdate(MaxSaves, {TRUE}, {0, BackupInterval + 1})
    \/ CleanupOldBackups

RetentionSpec == StoreInit /\ [][RetentionNext]_vars

\* C21: a run of cleanup_old_backups leaves at most KeepBackups backups,
\* removes none unless there were more, and keeps only backups newer than
\* every one it removes; and after 15 immediate saves, each more than
\* BackupInterval seconds after the one before, once no pruning thread is
\* left to run, there are exactly KeepBackups backups: those taken at the
\* last KeepBackups saves.
BackupRetention ==
    [][/\ hist'.op = "cleanup_old_backups" =>
            LET kept == DOMAIN db'.backups
                removed == DOMAIN db.backups \ kept
            IN  /\ kept \subseteq DOMAIN db.backups
                /\ Cardinality(kept) <= KeepBackups
                /\ removed # {} => Cardinality(kept) = KeepBackups
                /\ \A k \in kept, r \in removed : k > r
                /\ \A k \in kept : db'.backups[k] = db.backups[k]
       /\ (save_run'.n >= 15 /\ db'.cleanup_threads = 0) =>
            /\ Cardinality(DOMAIN db'.backups) = KeepBackups
            /\ DOMAIN db'.backups =
                 {save_run'.last - k * (BackupInterval + 1) :
                    k \in 0..(KeepBackups - 1)}]_vars

\* the fifteenth spaced save is made and the last pruning thread has run
BackupRetentionWitness ==
    /\ save_run.n >= 15
    /\ hist.op = "cleanup_old_backups"
    /\ db.cleanup_threads = 0
    /\ Cardinality(DOMAIN db.backups) = KeepBackups

\* the backups a step writes: new names, and names written over
BackupsTaken == {b \in DOMAIN db'.backups :
                    b \notin DOMAIN db.backups \/ db'.backups[b] # db.backups[b]}

\* a step that rewrites the record file from the store: an immediate
\* update, or a turn of the background loop that found the flag set
PhysicalWrite ==
    /\ \/ hist'.op = "update_user" /\ hist'.immediate
       \/ hist'.op = "background_save" /\ db.save_pending
    /\ db'.file = [exists |-> TRUE, doc |-> json_dump(db'.users)]

FoundTimes == {NoTime, 0, TrialDays * SecondsPerDay}

FoundStatuses == {"free", "trial", "premium", "suspended", "registering"}

FoundRecords(u) ==
    {[DefaultUser(u, 0) EXCEPT !["status"] = s, !["verified"] = v,
                               !["trial_end"] = te,
                               !["subscription_end"] = se,
                               !["suspended"] = (s = "suspended"),
                               !["suspension_reason"] =
                                   IF s = "suspended"
                                   THEN CHOOSE r \in Reasons : TRUE
                                   ELSE None] :
        s \in FoundStatuses, v \in BOOLEAN,
        te \in FoundTimes, se \in FoundTimes}

\* the store constructed on a record file of one record, or on none
ReadInit ==
    /\ \/ \E u \in UserIds : \E rec \in FoundRecords(u) :
             db = UserDatabase([exists |-> TRUE,
                                doc |-> json_dump(u :> rec)], EmptyMap)
       \/ db = NewDb
    /\ sm = NewSignalManager
    /\ now = 0
    /\ ms = 0
    /\ steps = 0
    /\ io_ok = Ok
    /\ hist = Op("init", 0, EmptyMap, FALSE, NoneRet)
    /\ approved_on_trial = {}
    /\ save_run = NoRun
    /\ approved = ApprovedBefore(db)
    /\ th = NoThreads

ReadNext ==
    \/ Tick
    \/ \E u \in UserIds : GetUserStatus(u)
    \/ BackgroundSave

ReadSpec == ReadInit /\ [][ReadNext]_vars

\* C26: the status read path on a stored premium record whose
\* subscription_end is set and on a day before today writes status "free"
\* and returns "free"; with subscription_end None, today or later it
\* returns "premium" and leaves the record as it is.
PremiumReadEndsSubscription ==
    [][\A u \in DOMAIN db.users :
          (IsCall("get_user_status", u)
              /\ db.users[u]["status"] = "premium") =>
              IF db.users[u]["subscription_end"] # NoTime
                   /\ date_of(db.users[u]["subscription_end"]) < date_of(now)
              THEN /\ hist'.ret = StrRet("free")
                   /\ db'.users[u]["status"] = "free"
              ELSE /\ hist'.ret = StrRet("premium")
                   /\ db'.users[u] = db.users[u]]_vars

\* a premium record whose subscription ended on an earlier day was read
PremiumReadEndsSubscriptionWitness ==
    /\ hist.op = "get_user_status"
    /\ hist.was.status = "premium"
    /\ hist.ret = StrRet("free")
    /\ db.users[hist.uid]["status"] = "free"
    /\ db.users[hist.uid]["subscription_end"] # NoTime
    /\ date_of(db.users[hist.uid]["subscription_end"]) < date_of(now)

\* C27: the status read path on a stored unverified record whose trial_end
\* is on a day before today returns "free" both when the status is "trial"
\* and when it is "free"; on "trial" it writes status "free" and
\* last_activity and nothing else of the record, so that a second read finds
\* it "free"; on "free" it changes nothing: the records, last_activity, the
\* dirty flag and the record file are as they were before it.
TrialExpiryIdempotent ==
    [][\A u \in DOMAIN db.users :
          (/\ IsCall("get_user_status", u)
           /\ ~db.users[u]["verified"]
           /\ db.users[u]["trial_end"] # NoTime
           /\ date_of(db.users[u]["trial_end"]) < date_of(now)) =>
              /\ db.users[u]["status"] = "trial" =>
                    /\ hist'.ret = StrRet("free")
                    /\ db'.users[u] = [db.users[u] EXCEPT
                                          !["status"] = "free",
                                          !["last_activity"] = now]
              /\ db.users[u]["status"] = "free" =>
                    /\ hist'.ret = StrRet("free")
                    /\ db' = db]_vars

\* the second read of an unverified user whose trial had ended: the first
\* wrote the record, the background loop saved it, and the second left the
\* dirty flag clear
TrialExpiryIdempotentWitness ==
    /\ hist.op = "get_user_status"
    /\ hist.was.stored /\ hist.was.status = "free"
    /\ hist.ret = StrRet("free")
    /\ ~db.users[hist.uid]["verified"]
    /\ db.users[hist.uid]["trial_end"] # NoTime
    /\ date_of(db.users[hist.uid]["trial_end"]) < date_of(now)
    /\ db.users[hist.uid]["last_activity"] = now
    /\ db.save_thread = "alive"
    /\ ~db.save_pending

(***************************************************************************)
(* Failing writes: update_user and the four admin transitions on a new     *)
(* store and the background loop, while the way a write goes changes at    *)
(* any moment.                                                             *)
(***************************************************************************)

WriteOutcomes == {Ok, Refused, Torn}

IoChanges ==
    /\ \E o \in WriteOutcomes \ {io_ok} : io_ok' = o
    /\ hist' = Op("io", 0, EmptyMap, FALSE, NoneRet)
    /\ UNCHANGED <<db, sm, now, ms, steps, approved_on_trial, approved, save_run, th>>

\* update_user with a name or a status, saved at once or not
NamedUpdate(u) ==
    \E kw \in {[full_name |-> "Ann"], [status |-> "premium"]},
       imm \in BOOLEAN :
        Call("update_user", u, kw, imm, NoneRet,
             update_user(db, u, imm, kw, now, io_ok), "")

FailNext ==
    \/ IoChanges
    \/ \E u \in UserIds : NamedUpdate(u)
    \/ \E u \in UserIds : ApiSuspendUser(u)
    \/ \E u \in UserIds : ApiReactivateUser(u)
    \/ \E u \in UserIds : ApiApproveUser(u)
    \/ \E u \in UserIds : ApiRejectUser(u)
    \/ BackgroundSave

FailSpec == StoreInit /\ [][FailNext]_vars

\* a step that calls _perform_save: a call that saves at once, or a turn of
\* the background loop that finds the dirty flag set
Saves ==
    \/ hist'.op \in Critical
    \/ hist'.op = "update_user" /\ hist'.immediate
    \/ hist'.op = "background_save" /\ db.save_pending

\* C23: when the write fails, update_user and the admin transitions
\* return as they do when it succeeds and leave in memory the record they
\* leave when it succeeds; get_user then returns that record; and a step
\* that saves when the write succeeds leaves a record file whose document
\* is the whole in-memory store, which load_users reads back as that store.
FailedWriteKeepsMemory ==
    [][/\ \A u \in UserIds :
            (io_ok # Ok /\ IsCall("update_user", u)) =>
                /\ hist'.ret = NoneRet
                /\ db'.users =
                     update_user(db, u, hist'.immediate, hist'.kw, now,
                                 Ok).users
                /\ \A k \in DOMAIN hist'.kw \ {"last_activity", "premium_since"} :
                      get_user(db', u, now)[k] = hist'.kw[k]
       /\ \A u \in UserIds :
            (io_ok # Ok /\ IsCall("suspend_user", u)) =>
                /\ hist'.ret = NoneRet
                /\ get_user(db', u, now)["suspended"]
                /\ get_user(db', u, now)["status"] = "suspended"
       /\ \A u \in UserIds :
            (io_ok # Ok /\ IsCall("reactivate_user", u)) =>
                /\ hist'.ret = NoneRet
                /\ ~get_user(db', u, now)["suspended"]
       /\ \A u \in UserIds :
            (io_ok # Ok /\ IsCall("approve_user", u)) =>
                /\ hist'.ret = NoneRet
                /\ get_user(db', u, now)["verified"]
       /\ \A u \in UserIds :
            (io_ok # Ok /\ IsCall("reject_user", u)) =>
                /\ hist'.ret = NoneRet
                /\ ~get_user(db', u, now)["verified"]
                /\ get_user(db', u, now)["status"] = "free"
       /\ (io_ok # Ok /\ hist'.op = "background_save") =>
                db'.users = db.users
       /\ (io_ok = Ok /\ Saves) =>
                /\ db'.file.exists
                /\ db'.file.doc = json_dump(db'.users)
                /\ load_users(db'.file) = db'.users]_vars

\* a suspension whose write failed and left a record file that is cut off
FailedWriteKeepsMemoryWitness ==
    /\ hist.op = "suspend_user"
    /\ io_ok = Torn
    /\ db.users[hist.uid]["suspended"]
    /\ db.users[hist.uid]["full_name"] = "Ann"
    /\ db.file.exists
    /\ db.file.doc = Unparsable

(***************************************************************************)
(* Loading: the store constructed on a record file found at start, which   *)
(* is missing, not a JSON document, or a document with any of the keys     *)
(* "1", "01", ... and "abc"; then updates, failing writes, the background  *)
(* loop, and the process started again on what the last one left.          *)
(***************************************************************************)

FoundKeys ==
    {ToString(u) : u \in UserIds} \cup {Padded(u) : u \in UserIds}
        \cup {"abc"}

\* the record found under a key: the defaults, with the key as the name
FoundRecord(k) ==
    [DefaultUser(IF is_int(k) THEN int_of(k) ELSE 0, 0)
        EXCEPT !["full_name"] = k]

FoundFiles ==
    {[exists |-> FALSE, doc |-> EmptyMap],
     [exists |-> TRUE, doc |-> Unparsable]}
        \cup {[exists |-> TRUE, doc |-> [k \in K |-> FoundRecord(k)]] :
                 K \in SUBSET FoundKeys}

LoadInit ==
    /\ \E file \in FoundFiles : db = UserDatabase(file, EmptyMap)
    /\ sm = NewSignalManager
    /\ now = 0
    /\ ms = 0
    /\ steps = 0
    /\ io_ok = Ok
    /\ hist = Op("init", 0, EmptyMap, FALSE, NoneRet)
    /\ approved_on_trial = {}
    /\ save_run = NoRun
    /\ approved = ApprovedBefore(db)
    /\ th = NoThreads

LoadNext ==
    \/ Restart
    \/ IoChanges
    \/ \E u \in UserIds : NamedUpdate(u)
    \/ BackgroundSave

LoadSpec == LoadInit /\ [][LoadNext]_vars

\* the store is as __init__ left it
Constructed == hist.op \in {"init", "restart"}

\* the record file cannot be loaded: it is missing, is not a JSON document,
\* or has a key that is not a decimal integer
FailsOpen ==
    \/ ~db.file.exists
    \/ db.file.doc = Unparsable
    \/ \E k \in DOMAIN db.file.doc : ~is_int(k)

\* C24 as stated: a store just constructed is empty when the record file is
\* missing, cannot be parsed or has a key that is not a decimal integer;
\* otherwise it has as many records as the document has entries, each
\* entry's record under the number its key denotes.
LoadsOneRecordPerEntry ==
    Constructed =>
        IF FailsOpen THEN db.users = EmptyMap
        ELSE /\ Cardinality(DOMAIN db.users) = Cardinality(DOMAIN db.file.doc)
             /\ \A k \in DOMAIN db.file.doc :
                   /\ int_of(k) \in DOMAIN db.users
                   /\ db.users[int_of(k)] = db.file.doc[k]

\* C24 (amended): a store just constructed is empty when the record file
\* is missing, cannot be parsed or has a key that is not a decimal integer;
\* otherwise its ids are the numbers the keys denote, each record is the
\* record of an entry whose key denotes its id, and an entry whose key is
\* the only one to denote its number is stored under that number.
LoadsOneRecordPerId ==
    Constructed =>
        IF FailsOpen THEN db.users = EmptyMap
        ELSE /\ DOMAIN db.users = {int_of(k) : k \in DOMAIN db.file.doc}
             /\ \A u \in DOMAIN db.users :
                   \E k \in DOMAIN db.file.doc :
                       int_of(k) = u /\ db.users[u] = db.file.doc[k]
             /\ \A k \in DOMAIN db.file.doc :
                   (\A x \in DOMAIN db.file.doc : int_of(x) = int_of(k) => x = k)
                       => db.users[int_of(k)] = db.file.doc[k]

\* the process is started again on a record file that a failed write left
\* cut off, and starts with no users
LoadsOneRecordPerIdWitness ==
    /\ hist.op = "restart"
    /\ db.file.exists
    /\ db.file.doc = Unparsable
    /\ db.users = EmptyMap

(***************************************************************************)
(* Round trip: updates and suspensions on a new store, the background      *)
(* loop, and the process started again on the record file.                 *)
(***************************************************************************)

RoundTripNext ==
    \/ \E u \in UserIds : ApiUpdateUser(u)
    \/ \E u \in UserIds : ApiSuspendUser(u)
    \/ BackgroundSave
    \/ Restart

RoundTripSpec == StoreInit /\ [][RoundTripNext]_vars

WindowDays == {1, 30}

FirstGap == TrialDays * SecondsPerDay

\* what /close_signal commands did to a signal: nothing, one close, or a
\* close with "sl" followed by a close with "tp"
Closings ==
    {<<>>} \cup {<<[price |-> p, reason |-> r]>> :
                    p \in {90, 110}, r \in CloseReasons}
           \cup {<<[price |-> 90, reason |-> "sl"],
                   [price |-> 110, reason |-> "tp"]>>}

RECURSIVE Closed(_, _, _, _)
Closed(s, signal_id, closings, t) ==
    IF closings = <<>> THEN s
    ELSE Closed(close_signal(s, signal_id, Head(closings).price,
                             Head(closings).reason, t, Ok).sm,
                signal_id, Tail(closings), t)

\* a signal created at the second at and closed as closings tell
WithSignal(s, action, closings, at) ==
    LET t == [s |-> at, ms |-> 0]
        r == create_signal(s, "entry", "XAUUSD", action, 100,
                           IF action = "BUY" THEN 90 ELSE 110,
                           IF action = "BUY" THEN 110 ELSE 90, "", t, Ok)
    IN  Closed(r.sm, r.ret, closings, t)

EarlierLedgers ==
    {NewSignalManager}
        \cup {WithSignal(NewSignalManager, a, c, 0) :
                 a \in Actions, c \in Closings}
        \cup {WithSignal(WithSignal(NewSignalManager, a1, c1, 0),
                         a2, c2, FirstGap) :
                 a1 \in Actions, c1 \in Closings,
                 a2 \in Actions, c2 \in Closings}

PerformanceInit ==
    /\ db = NewDb
    /\ \E s \in EarlierLedgers : sm = SignalManager(s.file)
    /\ now = FirstGap
    /\ ms = 0
    /\ steps = 0
    /\ io_ok = Ok
    /\ hist = Op("init", 0, EmptyMap, FALSE, NoneRet)
    /\ approved_on_trial = {}
    /\ save_run = NoRun
    /\ approved = ApprovedBefore(db)
    /\ th = NoThreads

GetSignalPerformance ==
    \E days \in WindowDays :
        LedgerCall("get_signal_performance", [days |-> days],
                   DictRet(get_signal_performance(sm, days, Instant)), sm)

PerformanceNext ==
    \/ Tick
    \/ Later
    \/ GetSignalPerformance

PerformanceSpec == PerformanceInit /\ [][PerformanceNext]_vars

\* the signals of the ledger created days days before the instant t or
\* later, and those of them that are closed
InWindow(days, t) ==
    {id \in DOMAIN sm.signals :
        LET c == sm.signals[id].created_at
        IN  \/ c.s > t.s - days * SecondsPerDay
            \/ c.s = t.s - days * SecondsPerDay /\ c.ms >= t.ms}

ClosedInWindow(days, t) ==
    {id \in InWindow(days, t) : sm.signals[id].status = "closed"}

\* C28: get_signal_performance(days) returns win_rate 0 and avg_profit 0
\* when no signal of the window is closed; otherwise win_rate times the
\* number of closed signals of the window is 100 times the number of those
\* with a profit above 0; and always profitable_signals <= closed_signals
\* <= total_signals and hit_sl_count + hit_tp_count <= closed_signals, the
\* counts being those of the window.  The ledger is left as it is.
PerformanceIsZeroSafe ==
    [][IsLedgerCall("get_signal_performance") =>
          LET r == hist'.ret.dict
              days == hist'.kw.days
              closed == ClosedInWindow(days, Instant)
              profitable == {id \in closed :
                                sm.signals[id].results.profit_loss > 0}
          IN  /\ sm' = sm
              /\ r.total_signals = Cardinality(InWindow(days, Instant))
              /\ r.closed_signals = Cardinality(closed)
              /\ r.profitable_signals = Cardinality(profitable)
              /\ closed = {} =>
                    /\ r.win_rate.num = 0 /\ r.win_rate.den = 1
                    /\ r.avg_profit.num = 0 /\ r.avg_profit.den = 1
              /\ closed # {} =>
                    /\ r.win_rate.den > 0
                    /\ r.win_rate.num * Cardinality(closed)
                         = 100 * Cardinality(profitable) * r.win_rate.den
              /\ r.profitable_signals <= r.closed_signals
              /\ r.closed_signals <= r.total_signals
              /\ r.hit_sl_count + r.hit_tp_count <= r.closed_signals]_vars

\* the performance of a window with two signals, of which one is closed,
\* with a profit, and both its flags hit_sl and hit_tp are set
PerformanceIsZeroSafeWitness ==
    /\ hist.op = "get_signal_performance"
    /\ hist.ret.dict.total_signals = 2
    /\ hist.ret.dict.closed_signals = 1
    /\ hist.ret.dict.profitable_signals = 1
    /\ hist.ret.dict.win_rate = Quotient(100, 1)
    /\ hist.ret.dict.hit_sl_count = 1
    /\ hist.ret.dict.hit_tp_count = 0
    /\ \E id \in DOMAIN sm.signals :
          sm.signals[id].results.hit_sl /\ sm.signals[id].results.hit_tp

(***************************************************************************)
(* The records of the bot: what every stored record keeps, in every state  *)
(* of Spec, whose first store is new or left by earlier runs of the bot.   *)
(***************************************************************************)

StoredIds == DOMAIN db.users

\* C29: in every state the bot reaches from an empty store, a stored record
\* whose status is 'trial' has a trial_end that is not None.
TrialHasTrialEnd ==
    \A u \in StoredIds :
        db.users[u]["status"] = "trial" => db.users[u]["trial_end"] # NoTime

\* a trial was just chosen: the record is on trial and its trial_end is the
\* instant of the choice plus the trial days
TrialHasTrialEndWitness ==
    /\ hist.op = "handle_trial_choice"
    /\ hist.uid \in StoredIds
    /\ db.users[hist.uid]["status"] = "trial"
    /\ db.users[hist.uid]["trial_end"] = now + TrialDays * SecondsPerDay

\* The bot left alone for long: the clock advances by a trial period, or by
\* a day more than the days after which cleanup_expired_data holds a record
\* inactive.
IdleSteps == {TrialDays * SecondsPerDay, (InactiveDays + 1) * SecondsPerDay}

Idle ==
    /\ steps < MaxSteps
    /\ \E s \in IdleSteps : now' = now + s
    /\ steps' = steps + 1
    /\ hist' = Op("tick", 0, EmptyMap, FALSE, NoneRet)
    /\ ms' = 0
    /\ UNCHANGED <<db, sm, io_ok, approved_on_trial, approved, save_run, th>>

\* what an earlier run, at time 0, made of the empty store: a user who chose
\* a language, written by the background save
LanguageRun(u) ==
    background_save(update_user(NewDb, u, FALSE, [language |-> "en"], 0, Ok),
                    0, Ok)

KeepInit ==
    /\ \E r \in EarlierRuns \cup {LanguageRun(u) : u \in UserIds} :
          db = UserDatabase(r.file, r.backups)
    /\ sm = NewSignalManager
    /\ now = 0
    /\ ms = 0
    /\ steps = 0
    /\ io_ok = Ok
    /\ hist = Op("init", 0, EmptyMap, FALSE, NoneRet)
    /\ approved_on_trial =
         {u \in DOMAIN db.users : OnTrial(db, u) /\ db.users[u]["verified"]}
    /\ save_run = NoRun
    /\ approved = ApprovedBefore(db)
    /\ th = NoThreads

KeepNext ==
    \/ Idle
    \/ \E u \in UserIds : GetUserStatus(u)
    \/ \E u \in UserIds : HandleTrialChoice(u)
    \/ \E u \in UserIds : AdminSuspend(u)
    \/ \E u \in UserIds : AdminReactivate(u)
    \/ CheckTrialExpiry
    \/ CheckAndHandleExpiredTrials
    \/ CleanupExpiredData
    \/ BackgroundSave

KeepSpec == KeepInit /\ [][KeepNext]_vars

\* C30: records are never deleted and their key never changes: no operation
\* of the bot, the cleanup routines included, removes an id from the store,
\* and every stored record's user_id is the key it is stored under.
RecordsAreKept ==
    /\ [](\A u \in StoredIds : db.users[u]["user_id"] = u)
    /\ [][StoredIds \subseteq DOMAIN db'.users]_vars

\* cleanup_expired_data has marked a record inactive, and the record is
\* still stored under its id
RecordsAreKeptWitness ==
    /\ hist.op = "cleanup_expired_data"
    /\ \E u \in StoredIds :
          /\ "inactive" \in DOMAIN db.users[u]
          /\ db.users[u]["user_id"] = u

(***************************************************************************)
(* The threads of the store.  update_user, save_users, _perform_save,      *)
(* _background_save and shutdown taken statement by statement: callers     *)
(* are threads of the host, a loop is a Thread object save_users made.     *)
(*   th.pc[c]     where caller c is: "idle" outside a call, "flag" before  *)
(*                the locked block of save_users, "check" before the test  *)
(*                of _save_thread, "create" before the assignment of the   *)
(*                new Thread, "start" before start(), "save" before        *)
(*                _perform_save, "writing" inside it; in shutdown,         *)
(*                "down_save" and "down_writing"                           *)
(*   th.flag[c]   the immediate flag of the call c is in                   *)
(*   th.loops[n]  Thread object n: "new" before start(), "test" at the     *)
(*                loop condition, "sleep" in time.sleep, "writing" inside  *)
(*                _perform_save with _save_lock held, "dead" when the      *)
(*                loop is left                                             *)
(*   th.save_thread   the Thread object _save_thread refers to, 0 for None *)
(*   th.raised    start() of a started Thread raised RuntimeError          *)
(*   th.down      shutdown() has returned                                  *)
(*   th.mixed     two writes of the record file were open at once          *)
(* _save_lock is held where a loop is "writing"; the locked block of       *)
(* save_users is one step, taken when no loop holds the lock.              *)
(***************************************************************************)

MaxCallers == 2

Callers == 1..MaxCallers

ThreadsInit ==
    /\ db = NewDb
    /\ sm = NewSignalManager
    /\ now = 0
    /\ ms = 0
    /\ steps = 0
    /\ io_ok = Ok
    /\ hist = Op("init", 0, EmptyMap, FALSE, NoneRet)
    /\ approved_on_trial = {}
    /\ save_run = NoRun
    /\ approved = ApprovedBefore(db)
    /\ th = [pc |-> [c \in Callers |-> "idle"],
             flag |-> [c \in Callers |-> FALSE],
             loops |-> <<>>, save_thread |-> 0, raised |-> FALSE,
             down |-> FALSE, mixed |-> FALSE]

\* Thread.is_alive(): started and not yet finished
is_alive(n) == th.loops[n] \in {"test", "sleep", "writing"}

\* the threads inside _perform_save, between open() and the end of the with
Writers ==
    {<<"caller", c>> :
        c \in {x \in Callers : th.pc[x] \in {"writing", "down_writing"}}}
        \cup {<<"loop", n>> : n \in {x \in DOMAIN th.loops :
                                        th.loops[x] = "writing"}}

LockHeld == \E n \in DOMAIN th.loops : th.loops[n] = "writing"

\* _perform_save up to open(filename, 'w'): the backup, and the record file
\* cut to nothing
begin_save(d, t) ==
    [perform_save(d, t, Refused) EXCEPT
        !.file = [exists |-> TRUE, doc |-> Unparsable]]

\* the documents json.dump and the close of the file can leave: the store,
\* or, when another write of the file was open meanwhile, the bytes of both
end_saves(d) ==
    {[d EXCEPT !.file = [exists |-> TRUE, doc |-> doc]] :
        doc \in {json_dump(d.users)}
                   \cup (IF th.mixed THEN {Unparsable} ELSE {})}

Step(name, c, imm) == Op(name, c, EmptyMap, imm, NoneRet)

Quiet == UNCHANGED <<sm, now, ms, io_ok, approved_on_trial, approved, save_run>>

\* update_user up to the call of save_users: the record is written
CallerUpdate(c) ==
    \E imm \in BOOLEAN :
        LET u == CHOOSE x \in UserIds : TRUE
            d == update_user(db, u, FALSE, [full_name |-> "Ann"], now, Ok)
        IN  /\ steps < MaxSteps
            /\ th.pc[c] = "idle"
            /\ db' = [d EXCEPT !.save_pending = db.save_pending,
                               !.save_thread = db.save_thread]
            /\ th' = [th EXCEPT !.pc[c] = "flag", !.flag[c] = imm]
            /\ steps' = steps + 1
            /\ hist' = Step("update_user", c, imm)
            /\ Quiet

\* with self._save_lock: self._save_pending = True
CallerSetsFlag(c) ==
    /\ th.pc[c] = "flag"
    /\ ~LockHeld
    /\ db' = [db EXCEPT !.save_pending = TRUE]
    /\ th' = [th EXCEPT !.pc[c] = IF th.flag[c] THEN "save" ELSE "check"]
    /\ hist' = Step("save_users:flag", c, th.flag[c])
    /\ UNCHANGED steps
    /\ Quiet

\* if self._save_thread is None or not self._save_thread.is_alive()
CallerChecks(c) ==
    /\ th.pc[c] = "check"
    /\ th' = [th EXCEPT !.pc[c] =
                 IF th.save_thread = 0 \/ ~is_alive(th.save_thread)
                 THEN "create" ELSE "idle"]
    /\ hist' = Step("save_users:check", c, FALSE)
    /\ UNCHANGED <<db, steps>>
    /\ Quiet

\* self._save_thread = threading.Thread(target=self._background_save, ...)
CallerCreates(c) ==
    /\ th.pc[c] = "create"
    /\ th' = [th EXCEPT !.pc[c] = "start",
                        !.loops = Append(@, "new"),
                        !.save_thread = Len(th.loops) + 1]
    /\ hist' = Step("save_users:create", c, FALSE)
    /\ UNCHANGED <<db, steps>>
    /\ Quiet

\* self._save_thread.start(): the Thread _save_thread refers to now
CallerStarts(c) ==
    /\ th.pc[c] = "start"
    /\ th' = IF th.loops[th.save_thread] = "new"
             THEN [th EXCEPT !.pc[c] = "idle",
                             !.loops[th.save_thread] = "test"]
             ELSE [th EXCEPT !.pc[c] = "idle", !.raised = TRUE]
    /\ hist' = Step("save_users:start", c, FALSE)
    /\ UNCHANGED <<db, steps>>
    /\ Quiet

\* _perform_save in the caller's thread, up to open()
CallerBeginsSave(c) ==
    /\ th.pc[c] \in {"save", "down_save"}
    /\ db' = begin_save(db, now)
    /\ th' = [th EXCEPT !.pc[c] = IF @ = "save" THEN "writing"
                                  ELSE "down_writing",
                        !.mixed = @ \/ Writers # {}]
    /\ hist' = Step("_perform_save:open", c, TRUE)
    /\ UNCHANGED steps
    /\ Quiet

\* json.dump and the end of the with block; the call returns
CallerEndsSave(c) ==
    /\ th.pc[c] \in {"writing", "down_writing"}
    /\ db' \in end_saves(db)
    /\ th' = [th EXCEPT !.pc[c] = "idle",
                        !.mixed = @ /\ Writers # {<<"caller", c>>},
                        !.down = @ \/ th.pc[c] = "down_writing"]
    /\ hist' = Step("_perform_save:close", c, TRUE)
    /\ UNCHANGED steps
    /\ Quiet

\* shutdown: self._shutdown = True, and the test of _save_pending
CallerShutsDown(c) ==
    /\ steps < MaxSteps
    /\ th.pc[c] = "idle"
    /\ ~db.shutdown
    /\ db' = [db EXCEPT !.shutdown = TRUE]
    /\ th' = [th EXCEPT !.pc[c] = IF db.save_pending THEN "down_save"
                                  ELSE "idle",
                        !.flag[c] = TRUE,
                        !.down = ~db.save_pending]
    /\ steps' = steps + 1
    /\ hist' = Step("shutdown", c, TRUE)
    /\ Quiet

\* while not self._shutdown
LoopTests(n) ==
    /\ th.loops[n] = "test"
    /\ th' = [th EXCEPT !.loops[n] = IF db.shutdown THEN "dead" ELSE "sleep"]
    /\ hist' = Step("_background_save:while", n, FALSE)
    /\ UNCHANGED <<db, steps>>
    /\ Quiet

\* the sleep ends, the lock is taken; with the flag set _perform_save runs
\* up to open(), without it the lock is released
LoopWakes(n) ==
    /\ th.loops[n] = "sleep"
    /\ ~LockHeld
    /\ db' = IF db.save_pending THEN begin_save(db, now) ELSE db
    /\ th' = [th EXCEPT !.loops[n] = IF db.save_pending
                                     THEN "writing" ELSE "test",
                        !.mixed = @ \/ (db.save_pending /\ Writers # {})]
    /\ hist' = Step("_background_save:lock", n, FALSE)
    /\ UNCHANGED steps
    /\ Quiet

\* json.dump and the close, self._save_pending = False, the lock released
LoopEndsSave(n) ==
    /\ th.loops[n] = "writing"
    /\ \E d \in end_saves(db) : db' = [d EXCEPT !.save_pending = FALSE]
    /\ th' = [th EXCEPT !.loops[n] = "test",
                        !.mixed = @ /\ Writers # {<<"loop", n>>}]
    /\ hist' = Step("_background_save:saved", n, FALSE)
    /\ UNCHANGED steps
    /\ Quiet

ThreadsNext ==
    \/ \E c \in Callers : CallerUpdate(c)
    \/ \E c \in Callers : CallerSetsFlag(c)
    \/ \E c \in Callers : CallerChecks(c)
    \/ \E c \in Callers : CallerCreates(c)
    \/ \E c \in Callers : CallerStarts(c)
    \/ \E c \in Callers : CallerBeginsSave(c)
    \/ \E c \in Callers : CallerEndsSave(c)
    \/ \E c \in Callers : CallerShutsDown(c)
    \/ \E n \in DOMAIN th.loops : LoopTests(n)
    \/ \E n \in DOMAIN th.loops : LoopWakes(n)
    \/ \E n \in DOMAIN th.loops : LoopEndsSave(n)

ThreadsSpec == ThreadsInit /\ [][ThreadsNext]_vars

\* the loops that run: Thread objects started and not finished
Running == {n \in DOMAIN th.loops : is_alive(n)}

\* C31: at any time at most one background save loop is running, whatever
\* the interleaving of the update_user(immediate = False) calls of
\* concurrent callers.
OneBackgroundLoop == Cardinality(Running) <= 1

\* the states of the threads are of the kinds described above
ThreadsTypeOK ==
    /\ \A c \in Callers : th.pc[c] \in {"idle", "flag", "check", "create",
                                        "start", "save", "writing",
                                        "down_save", "down_writing"}
    /\ \A n \in DOMAIN th.loops : th.loops[n] \in {"new", "test", "sleep",
                                                   "writing", "dead"}
    /\ th.save_thread \in 0..Len(th.loops)

\* a step in which loop n enters _perform_save
LoopWrites(n) == th.loops[n] = "sleep" /\ th'.loops[n] = "writing"

\* C32: once shutdown() has returned, the background loop performs no
\* further write of the record file.
NoWriteAfterShutdown ==
    [][th.down => \A n \in DOMAIN th.loops : ~LoopWrites(n)]_vars

\* C33: no two writes of the record file overlap: a caller's thread is
\* never inside the _perform_save of an immediate update while the
\* background loop is inside its own.
NoOverlappingWrites ==
    ~(/\ \E c \in Callers : th.pc[c] = "writing"
      /\ \E n \in DOMAIN th.loops : th.loops[n] = "writing")

(***************************************************************************)
(* The dirty flag, in FailSpec, where every call is one step and no store  *)
(* operation is in progress in any state.                                  *)
(***************************************************************************)

\* the record file holds a document that a write completed: none yet, or
\* what the last successful write left
FileWritten == db.file.doc # Unparsable

\* C34: between operations the dirty flag is set if and only if the
\* in-memory store differs from what was last successfully written to the
\* record file; a successful write, immediate or by the background loop,
\* clears the flag, and a failed write leaves it set.
DirtyIffUnsaved ==
    /\ [](FileWritten =>
            (db.save_pending <=> db.file.doc # json_dump(db.users)))
    /\ [][/\ (Saves /\ io_ok = Ok) => ~db'.save_pending
          /\ (Saves /\ io_ok # Ok) => db'.save_pending]_vars

\* the two halves of C34 each on their own
ImmediateWriteLeavesFlag ==
    [][(Saves /\ io_ok = Ok /\ hist'.op # "background_save")
          => ~db'.save_pending]_vars

FailedWriteLeavesFlag ==
    [][(Saves /\ io_ok # Ok) => db'.save_pending]_vars

(***************************************************************************)
(* Frames: what a call leaves alone.                                       *)
(***************************************************************************)

\* C35: update_user with immediate = False does no file I/O in the calling
\* step: the record file, the backup directory and the time of the last
\* backup are as before when the call returns; the record of the user is
\* written in memory, the other records are as before, the dirty flag is
\* set, and the background loop is started when none is alive.
DebouncedUpdateNoIO ==
    [][\A u \in UserIds :
          (IsCall("update_user", u) /\ ~hist'.immediate) =>
              /\ db'.file = db.file
              /\ db'.backups = db.backups
              /\ db'.last_backup = db.last_backup
              /\ db'.cleanup_threads = db.cleanup_threads
              /\ db'.shutdown = db.shutdown
              /\ db'.save_pending
              /\ db'.save_thread = "alive"
              /\ DOMAIN db'.users = DOMAIN db.users \cup {u}
              /\ \A v \in DOMAIN db.users \ {u} : db'.users[v] = db.users[v]
              /\ \A k \in DOMAIN hist'.kw \ Special :
                    db'.users[u][k] = hist'.kw[k]]_vars

\* a debounced update returned: the record file, written by an earlier
\* immediate update, does not have the new status, and the record has
DebouncedUpdateNoIOWitness ==
    /\ hist.op = "update_user"
    /\ ~hist.immediate
    /\ "status" \in DOMAIN hist.kw
    /\ db.save_pending
    /\ db.file.exists
    /\ db.users[hist.uid]["status"] = hist.kw["status"]
    /\ db.file.doc[ToString(hist.uid)]["status"] # hist.kw["status"]

\* neither expiry condition of get_user_status holds of user u now: the
\* status is not "trial" with a trial_end of today or earlier, and not
\* "premium" with a subscription_end before today
NoExpiry(u) ==
    LET user == get_user(db, u, now)
        today == date_of(now)
    IN  /\ ~(/\ user["status"] = "trial"
             /\ TruthyTime(user["trial_end"])
             /\ date_of(user["trial_end"]) <= today)
        /\ ~(/\ user["status"] = "premium"
             /\ TruthyTime(user["subscription_end"])
             /\ date_of(user["subscription_end"]) < today)

\* C36: when neither expiry condition holds (the status is free, suspended
\* or registering, a trial not yet ended, premium without an elapsed
\* subscription_end, or the id is not stored), get_user_status returns the
\* status of the record get_user gives and writes nothing: the records,
\* last_activity included, the stored ids, the dirty flag and the files are
\* unchanged.
ReadWithoutExpiryWritesNothing ==
    [][\A u \in UserIds :
          (IsCall("get_user_status", u) /\ NoExpiry(u)) =>
              /\ hist'.ret = StrRet(get_user(db, u, now)["status"])
              /\ db' = db]_vars

\* a read at a later time of a premium user whose subscription has not
\* ended: "premium" is returned, last_activity is the earlier time and the
\* dirty flag is clear
ReadWithoutExpiryWitness ==
    /\ hist.op = "get_user_status"
    /\ hist.ret = StrRet("premium")
    /\ hist.uid \in DOMAIN db.users
    /\ db.users[hist.uid]["status"] = "premium"
    /\ db.users[hist.uid]["subscription_end"] # NoTime
    /\ db.users[hist.uid]["last_activity"] < now
    /\ ~db.save_pending

\* C37: in every state the bot reaches from an empty store through
\* approval, rejection, suspension, reactivation, status reads, the expiry
\* jobs, trial start and registration, a record with status "premium" has
\* verified = true.
PremiumIsVerified ==
    \A u \in StoredIds :
        db.users[u]["status"] = "premium" => db.users[u]["verified"]

\* a verified user was suspended and reactivated, and is premium again
PremiumIsVerifiedWitness ==
    /\ hist.op = "admin_reactivate_user"
    /\ hist.was.status = "suspended"
    /\ hist.uid \in StoredIds
    /\ db.users[hist.uid]["status"] = "premium"
    /\ db.users[hist.uid]["verified"]

\* C38: an admin-panel operation that reports failure leaves the store as
\* it was: handle_user_approval of a user with no account_number and
\* reactivate_user of a user that is not suspended return failure, create
\* and change no record, and write nothing to disk.
AdminFailureChangesNothing ==
    [][\A u \in UserIds :
          LET user_data == get_user(db, u, now)
          IN  (\/ /\ IsCall("handle_user_approval", u)
                  /\ ~Truthy(Get(user_data, "account_number"))
               \/ /\ IsCall("admin_reactivate_user", u)
                  /\ ~user_data["suspended"])
                => /\ hist'.ret = BoolRet(FALSE)
                   /\ db' = db]_vars

\* the approval of a stored user on trial who has sent no account number
\* was refused
AdminFailureChangesNothingWitness ==
    /\ hist.op = "handle_user_approval"
    /\ hist.ret = BoolRet(FALSE)
    /\ hist.uid \in StoredIds
    /\ db.users[hist.uid]["status"] = "trial"
    /\ db.users[hist.uid]["account_number"] = None
    /\ ~db.users[hist.uid]["verified"]

(***************************************************************************)
(* Approval, rejection and the pending list, in PendingSpec.               *)
(***************************************************************************)

\* the user ids of the entries of get_pending_verifications()
Pending(d) == {e.user_id : e \in get_pending_verifications(d)}

\* C39: after an approval of u, u is not in get_pending_verifications()
\* until u is rejected; and after a rejection of a user who is not
\* suspended and has an account_number, u is in the list.
ApprovedLeavesPending ==
    /\ [](\A u \in approved : u \notin Pending(db))
    /\ [][\A u \in UserIds :
            LET user == get_user(db, u, now)
            IN  (/\ IsCall("handle_user_rejection", u)
                 /\ ~user["suspended"]
                 /\ Truthy(Get(user, "account_number")))
                   => u \in Pending(db') /\ u \notin approved']_vars

\* a user who was approved, and so out of the list, was rejected and is in
\* the list again
ApprovedLeavesPendingWitness ==
    /\ hist.op = "handle_user_rejection"
    /\ hist.was.verified
    /\ hist.uid \in Pending(db)
    /\ hist.uid \notin approved

====
